---- MODULE Spec2Model ----
(***************************************************************************)
(* Campus-Marketplace backend: the conversation / offer negotiation state  *)
(* machine of backend/app/routes/chat.py together with the per-user        *)
(* WebSocket registry (active_connections) and the event dispatch that     *)
(* follows each committed write.                                           *)
(*                                                                         *)
(* Execution model.  The chat handlers are `async def` coroutines that run *)
(* on one event loop; their SQLAlchemy calls are synchronous, so a handler *)
(* runs without interruption from its first line to its first suspending   *)
(* `await` (a send_json on a registered channel) and from one such await   *)
(* to the next.  Each action below is one such uninterrupted piece.  A     *)
(* db.commit() is atomic and may fail; a failed commit persists nothing of *)
(* the session's pending writes.                                           *)
(***************************************************************************)
EXTENDS Integers, Sequences, FiniteSets, TLC

\* ------------------------------------------------------------------ bounds
MaxConvs    == 2   \* conversation rows ever inserted
MaxMsgs     == 4   \* message rows ever inserted
MaxEvents   == 4   \* events ever handed to a channel
MaxChannels == 2   \* WebSocket connections ever opened
MaxInflight == 1   \* handlers suspended inside a send_json at one time
MaxRatings  == 2   \* rating rows ever inserted
MaxRateCalls == 2  \* rate_user requests running in worker threads at one time

\* ---------------------------------------------------------------- fixtures
\* Rows of the users and items tables; both tables are maintained by routes
\* outside this module and only read here.
Users   == {1, 2, 3}
NonUser == 4                         \* a user id with no row in users
Items   == {1, 2}
seller_id(i) == IF i = 1 THEN 1 ELSE 3     \* Item.seller_id

None    == 0                         \* Python None for ids and timestamps
NoPrice == -1                        \* Python None for a price
Now     == 1                         \* a datetime.utcnow() value

\* HTTP status codes used by the handlers
HTTP_200_OK                    == 200
HTTP_400_BAD_REQUEST           == 400
HTTP_403_FORBIDDEN             == 403
HTTP_404_NOT_FOUND             == 404
HTTP_500_INTERNAL_SERVER_ERROR == 500
WS_1008_POLICY_VIOLATION       == 1008
Suspended                      == 0  \* no response yet: handler awaits a send

\* -------------------------------------------------------------- price input
\* A price arrives as a JSON number of dollars.  The model writes it in
\* thousandths of a dollar so that 0.005, 0.29 and 0.50 are all inputs.
PriceInputs == {5, 290, 500}

\* The decimals d (in thousandths) of PriceInputs for which the IEEE-754
\* product float(d/1000) * 100 lands just below the integer number of cents:
\* 0.29 * 100 = 28.999999999999996.
FloatShort == {290}

\* int(price * 100): float product, then truncation toward zero.
ToCents(p) == IF p \in FloatShort THEN (p \div 10) - 1 ELSE p \div 10

VARIABLES
    conversations,      \* rows of table conversations
    messages,           \* rows of table messages
    notifications,      \* rows of table notifications
    transactions,       \* rows of table transactions
    item_status,        \* Item.status per item
    next_conv_id,       \* conversations.id sequence
    next_msg_id,        \* messages.id sequence
    active_connections, \* chat.active_connections: user id -> channel | None
    channels,           \* every WebSocket connection ever accepted
    recv,               \* per channel, the events send_json delivered
    inflight,           \* handlers suspended in an await send_json
    ratings,            \* rows of table ratings
    rate_calls,         \* rate_user requests between their query and commit
    item_reports,       \* rows of table item_reports
    resp                \* what the last handler step did / returned

db   == <<conversations, messages, notifications, transactions, item_status,
          next_conv_id, next_msg_id>>
ws   == <<active_connections, channels, recv>>
rating_state == <<ratings, rate_calls>>
vars == <<conversations, messages, notifications, transactions, item_status,
          next_conv_id, next_msg_id, active_connections, channels, recv,
          inflight, ratings, rate_calls, item_reports, resp>>


\* ------------------------------------------------------------------- rows
\* conversation ids a request may name: that of any row, or one of no row
ConvIds == {r.id : r \in conversations} \cup {next_conv_id}
ChannelIds   == 1..MaxChannels

\* An authorization that lets every user through.  C6 rests on the handlers
\* comparing the caller with user1_id and user2_id.
AnyUser(r) == Users

\* An authorization that lets nobody into a reported conversation.  C18
\* rests on no handler reading is_reported.
ParticipantsUnlessReported(r) ==
    IF r.is_reported THEN {} ELSE {r.user1_id, r.user2_id}

\* the users the handlers' authorization check lets through
Participants(r) == {r.user1_id, r.user2_id}

\* db.query(Conversation).filter(Conversation.id == conversation_id)
ConvRows(c) == {r \in conversations : r.id = c}

\* conversation.user2_id if conversation.user1_id == u else conversation.user1_id
OtherUser(r, u) == IF r.user1_id = u THEN r.user2_id ELSE r.user1_id

\* Conversation(user1_id=..., user2_id=..., item_id=...) with column defaults
NewConversation(id, u1, u2, item) ==
    [id |-> id, user1_id |-> u1, user2_id |-> u2, item_id |-> item,
     last_message_at |-> None,
     is_sold |-> FALSE, sold_at |-> None, transaction_id |-> None,
     pending_offer_price |-> NoPrice, pending_offer_from_user_id |-> None,
     pending_offer_at |-> None,
     is_ended |-> FALSE, ended_at |-> None, is_reported |-> FALSE]

\* Message(conversation_id=..., sender_id=...) with column defaults
NewMessage(id, c, u) ==
    [id |-> id, conversation_id |-> c, sender_id |-> u, is_read |-> FALSE]

\* create_notification(db, user_id, ..., related_conversation_id, related_user_id)
NewNotification(id, u, type, c, from) ==
    [id |-> id, user_id |-> u, type |-> type, related_conversation_id |-> c,
     related_user_id |-> from, is_read |-> FALSE]

\* Transaction(item_id, seller_id, buyer_id, conversation_id, sale_price);
\* sale_price holds pending_offer_price / 100.0, recorded by its numerator.
NewTransaction(id, item, seller, buyer, c, cents) ==
    [id |-> id, item_id |-> item, seller_id |-> seller, buyer_id |-> buyer,
     conversation_id |-> c, sale_price_cents |-> cents]

\* ----------------------------------------------------------------- events
\* The conversation fields a conversation_updated payload carries.
NoPayload == [item_id |-> None, is_sold |-> FALSE, is_ended |-> FALSE,
              transaction_id |-> None]

Payload(r) == [item_id |-> r.item_id, is_sold |-> r.is_sold,
               is_ended |-> r.is_ended, transaction_id |-> r.transaction_id]

\* {"type": type, "data": {...}}; ref is the id the data names (message,
\* notification, transaction or item id, or the notifications_read count).
Event(type, c, ref) ==
    [type |-> type, conv |-> c, ref |-> ref, data |-> NoPayload]

\* One send_json of a handler: recipient, event, whether the send sits in a
\* try/except of the handler, and whether the payload is still to be built
\* (the conversation_updated payload is built when the broadcast starts).
Send(to, ev, guarded, lazy) ==
    [to |-> to, ev |-> ev, guarded |-> guarded, lazy |-> lazy]

\* broadcast_conversation_update: the same event to user1 then user2
Broadcast(r) ==
    << Send(r.user1_id, Event("conversation_updated", r.id, None), TRUE, TRUE),
       Send(r.user2_id, Event("conversation_updated", r.id, None), TRUE, TRUE) >>

\* payload = {...} of broadcast_conversation_update, read from the rows as
\* they are when the broadcast starts
FillPayload(plan, convs) ==
    [i \in DOMAIN plan |->
        IF plan[i].lazy
        THEN LET r == CHOOSE r \in convs : r.id = plan[i].ev.conv
             IN  [plan[i] EXCEPT !.lazy = FALSE, !.ev.data = Payload(r)]
        ELSE plan[i]]

\* A dispatch that skips the membership test and looks the recipient up
\* whether or not an entry exists.  C23 rests on the test and the lookup
\* running together, with no await between them.
RegisteredUnchecked(u) == TRUE

\* `if user_id in active_connections`
Registered(u) == active_connections[u] # None

\* Runs a handler from a resume point to its next suspending await: every
\* send whose recipient has no registered channel is skipped on the way.
\* Result: the sends that remain; the first one is the send now awaited.
RECURSIVE RunToAwait(_, _)
RunToAwait(plan, convs) ==
    IF plan = << >> THEN << >>
    ELSE LET e == Head(plan) IN
         IF e.lazy
         THEN IF \E r \in convs : r.id = e.ev.conv
              THEN RunToAwait(FillPayload(plan, convs), convs)
              \* the row is gone: reading it raises inside the broadcast's
              \* outer try, which skips the whole broadcast
              ELSE RunToAwait(SelectSeq(plan, LAMBDA x : ~x.lazy), convs)
         ELSE IF ~Registered(e.to)
              THEN RunToAwait(Tail(plan), convs)
              ELSE plan

\* Number of events delivered so far, over all channels
RECURSIVE SumLen(_)
SumLen(logs) == IF logs = << >> THEN 0 ELSE Len(Head(logs)) + SumLen(Tail(logs))
Delivered == SumLen(recv)

\* What a handler step reports: the request, its HTTP status (Suspended
\* while the handler awaits a send), the value returned, and whether the
\* step was the handler's database part ("db") or a resumed send ("send").
NoArg == [action |-> "", price |-> NoPrice, item |-> None, to |-> None,
          tx |-> None, rating |-> None]

Response(op, u, c, arg, status, val) ==
    [op |-> op, user |-> u, conv |-> c, arg |-> arg, status |-> status,
     val |-> val, detail |-> "", step |-> "db"]

\* raise HTTPException(status_code=status, detail=detail)
Failure(op, u, c, status, detail) ==
    [op |-> op, user |-> u, conv |-> c, arg |-> NoArg, status |-> status,
     val |-> None, detail |-> detail, step |-> "db"]

\* The part of a handler after its commits: the sends of `plan`, then the
\* response `final`.
Dispatch(plan, final) ==
    LET rest == RunToAwait(plan, conversations') IN
    IF rest = << >>
    THEN /\ inflight' = inflight
         /\ resp' = final
    ELSE /\ Cardinality(inflight) < MaxInflight
         /\ Delivered + Len(rest) <= MaxEvents
         /\ inflight' = inflight \cup
               {[plan |-> rest,
                 chan |-> active_connections[Head(rest).to],
                 final |-> final]}
         /\ resp' = [final EXCEPT !.status = Suspended]

\* A handler that raised HTTPException or failed before any send.
Reply(final) ==
    /\ resp' = final
    /\ UNCHANGED inflight

\* ------------------------------------------------------------------- Init
Init ==
    /\ conversations = {}
    /\ messages = {}
    /\ notifications = {}
    /\ transactions = {}
    /\ item_status = [i \in Items |-> "AVAILABLE"]
    /\ next_conv_id = 1
    /\ next_msg_id = 1
    /\ active_connections = [u \in Users |-> None]
    /\ channels = << >>
    /\ recv = << >>
    /\ inflight = {}
    /\ ratings = {}
    /\ item_reports = {}
    /\ rate_calls = {}
    /\ resp = Response("init", None, None, NoArg, HTTP_200_OK, None)

\* -------------------------------------------------------------- WebSocket
\* The ?token= query parameter: absent, or a string that verify_token
\* rejects, or an access token issued to user v.
NoToken      == [present |-> FALSE, valid |-> FALSE, user_id |-> None]
BadToken     == [present |-> TRUE,  valid |-> FALSE, user_id |-> None]
TokenOf(v)   == [present |-> TRUE,  valid |-> TRUE,  user_id |-> v]
Tokens       == {NoToken, BadToken} \cup {TokenOf(v) : v \in Users}

\* auth.jwt_handler.verify_token: token data naming a user id, or raises
verify_token(t) == [raises |-> ~t.valid, user_id |-> t.user_id]

\* An admission that verifies the token but does not compare the user id it
\* names with the path's user id.  C10 rests on that comparison.
AdmittedAnyToken(user_id, token) ==
    /\ token.present
    /\ ~verify_token(token).raises

\* Whether websocket_endpoint reaches websocket.accept()
Admitted(user_id, token) ==
    /\ token.present
    /\ ~verify_token(token).raises
    /\ verify_token(token).user_id = user_id

\* A registry write that keeps a channel already registered for the user.
\* C9 rests on the write replacing it.
RegisterIfAbsent(user_id, ch) ==
    IF active_connections[user_id] = None
    THEN [active_connections EXCEPT ![user_id] = ch]
    ELSE active_connections

\* active_connections[user_id] = websocket
Register(user_id, ch) == [active_connections EXCEPT ![user_id] = ch]

\* reason= of the websocket.close(code=1008, ...) that answers the token
CloseReason(user_id, token) ==
    IF ~token.present THEN "Token required"
    ELSE IF verify_token(token).raises THEN "Invalid token"
    ELSE "User ID mismatch"

\* websocket_endpoint up to its receive loop: close(1008) and return, or
\* accept and register
WsConnect(user_id, token) ==
    LET arg == [NoArg EXCEPT !.to = token.user_id] IN
    IF Admitted(user_id, token)
    THEN /\ Len(channels) < MaxChannels
         /\ channels' = Append(channels, [user_id |-> user_id, state |-> "open"])
         /\ recv' = Append(recv, << >>)
         /\ active_connections' = Register(user_id, Len(channels) + 1)
         /\ resp' = Response("ws_connect", user_id, None, arg, HTTP_200_OK,
                             Len(channels) + 1)
         /\ UNCHANGED <<db, inflight>>
    ELSE /\ resp' = [Response("ws_connect", user_id, None, arg,
                              WS_1008_POLICY_VIOLATION, None)
                        EXCEPT !.detail = CloseReason(user_id, token)]
         /\ UNCHANGED <<db, ws, inflight>>

\* The peer of an accepted connection goes away; the handler has not yet
\* been resumed from receive_text, and a send_json on the channel raises.
ClientGone(ch) ==
    /\ ch \in DOMAIN channels
    /\ channels[ch].state \in {"open", "stalled"}
    /\ channels' = [channels EXCEPT ![ch].state = "gone"]
    /\ resp' = Response("client_gone", channels[ch].user_id, None, NoArg,
                        HTTP_200_OK, ch)
    /\ UNCHANGED <<db, active_connections, recv, inflight>>

\* The peer of an accepted connection stops reading while the connection
\* stays up: a send_json on the channel is accepted by the server and its
\* await does not complete while the peer stays so.
ClientStalls(ch) ==
    /\ ch \in DOMAIN channels
    /\ channels[ch].state = "open"
    /\ channels' = [channels EXCEPT ![ch].state = "stalled"]
    /\ resp' = Response("client_stalls", channels[ch].user_id, None, NoArg,
                        HTTP_200_OK, ch)
    /\ UNCHANGED <<db, active_connections, recv, inflight>>

\* websocket_endpoint's except branches: receive_text raised, the handler
\* removes whatever is registered under its user id and ends.
WsDisconnect(ch) ==
    /\ ch \in DOMAIN channels
    /\ channels[ch].state = "gone"
    /\ channels' = [channels EXCEPT ![ch].state = "closed"]
    /\ active_connections' =
            [active_connections EXCEPT ![channels[ch].user_id] = None]
    /\ resp' = Response("ws_disconnect", channels[ch].user_id, None, NoArg,
                        HTTP_200_OK, ch)
    /\ UNCHANGED <<db, recv, inflight>>

\* send_json on channel ch succeeds exactly while the peer is there
SendSucceeds(ch) == channels[ch].state = "open"

\* `await ....send_json(...)` comes back, with or without an exception,
\* unless the peer has stalled
SendCompletes(ch) == channels[ch].state # "stalled"

\* A resumed send that stays at the head of the handler's plan and is sent
\* again.  Delivery at most once (C7) rests on each send_json being awaited
\* once.
CompleteSendAgain(r) ==
    /\ r \in inflight
    /\ recv' = IF SendSucceeds(r.chan)
               THEN [recv EXCEPT ![r.chan] = Append(@, Head(r.plan).ev)]
               ELSE recv
    /\ inflight' = inflight
    /\ resp' = [r.final EXCEPT !.step = "send", !.status = Suspended]
    /\ UNCHANGED <<db, active_connections, channels>>

\* A suspended handler is resumed from its await send_json: the event was
\* delivered or the send raised; the handler then runs to its next await or
\* to its return.
CompleteSend(r) ==
    LET e    == Head(r.plan)
        ok   == SendSucceeds(r.chan)
        rest == RunToAwait(Tail(r.plan), conversations)
        done == [r.final EXCEPT !.step = "send"]
    IN
    /\ r \in inflight
    /\ SendCompletes(r.chan)
    /\ recv' = IF ok THEN [recv EXCEPT ![r.chan] = Append(@, e.ev)] ELSE recv
    /\ IF ~ok /\ ~e.guarded
       THEN \* the exception leaves the handler
            /\ inflight' = inflight \ {r}
            /\ resp' = [done EXCEPT !.status = HTTP_500_INTERNAL_SERVER_ERROR]
       ELSE IF rest = << >>
       THEN /\ inflight' = inflight \ {r}
            /\ resp' = done
       ELSE /\ inflight' = (inflight \ {r}) \cup
                  {[r EXCEPT !.plan = rest,
                             !.chan = active_connections[Head(rest).to]]}
            /\ resp' = [done EXCEPT !.status = Suspended]
    /\ UNCHANGED <<db, active_connections, channels>>

\* ------------------------------------------------------------ HTTP handlers
\* Where a db.commit() of a handler fails: nowhere, at the handler's own
\* commit, or at the commit inside create_notification.
Faults == {"none", "main", "notif"}

\* A request that returns or raises before any write
Return(final) ==
    /\ Reply(final)
    /\ UNCHANGED <<db, ws>>

\* conversations with row `old` replaced by `new`
Replace(old, new) == (conversations \ {old}) \cup {new}

\* A lookup that matches the pair only in the order given.  One row per
\* unordered pair (C2) rests on the lookup matching both orders.
ExistingOrdered(u1, u2) ==
    {r \in conversations : r.user1_id = u1 /\ r.user2_id = u2}

\* The lookup of create_conversation: a row for the pair in either order
Existing(u1, u2) ==
    {r \in conversations :
        \/ r.user1_id = u1 /\ r.user2_id = u2
        \/ r.user1_id = u2 /\ r.user2_id = u1}

\* create_conversation's update of an existing row to another item
Repoint(e, item) ==
    [e EXCEPT !.item_id = item,
              !.is_ended = FALSE,
              !.ended_at = IF e.is_ended THEN None ELSE @,
              !.is_sold = FALSE,
              !.sold_at = IF e.is_sold THEN None ELSE @,
              !.transaction_id = IF e.is_sold THEN None ELSE @]

\* POST /conversations
CreateConversation(u, u2, item, fault) ==
    LET arg == [NoArg EXCEPT !.to = u2, !.item = item]
        R(status, id) == Response("create_conversation", u, id, arg, status, id)
    IN
    IF u = u2
    THEN fault = "none" /\ Return(Failure("create_conversation", u, None,
                HTTP_400_BAD_REQUEST,
                "Cannot create conversation with yourself"))
    ELSE IF u2 \notin Users
    THEN fault = "none" /\ Return(Failure("create_conversation", u, None,
                HTTP_404_NOT_FOUND,
                "User not found"))
    ELSE IF Existing(u, u2) # {}
    THEN \E e \in Existing(u, u2) :          \* .first()
            IF item # None /\ e.item_id # item
            THEN IF fault = "main"
                 THEN Return(R(HTTP_500_INTERNAL_SERVER_ERROR, None))
                 ELSE /\ fault = "none"
                      /\ conversations' = Replace(e, Repoint(e, item))
                      /\ Dispatch(Broadcast(e), R(HTTP_200_OK, e.id))
                      /\ UNCHANGED <<messages, notifications, transactions,
                                     item_status, next_conv_id, next_msg_id, ws>>
            ELSE fault = "none" /\ Return(R(HTTP_200_OK, e.id))
    ELSE /\ next_conv_id <= MaxConvs
         /\ IF fault = "main"
            THEN Return(R(HTTP_500_INTERNAL_SERVER_ERROR, None))
            ELSE /\ fault = "none"
                 /\ conversations' = conversations \cup
                        {NewConversation(next_conv_id, u, u2, item)}
                 /\ next_conv_id' = next_conv_id + 1
                 /\ Reply(R(HTTP_200_OK, next_conv_id))
                 /\ UNCHANGED <<messages, notifications, transactions,
                                item_status, next_msg_id, ws>>

\* GET /conversations/{conversation_id}/messages
GetMessages(u, c, fault) ==
    LET R(status) == Response("get_messages", u, c, NoArg, status, None) IN
    IF ConvRows(c) = {}
    THEN fault = "none" /\ Return(Failure("get_messages", u, c,
                HTTP_404_NOT_FOUND,
                "Conversation not found"))
    ELSE LET conversation == CHOOSE r \in ConvRows(c) : TRUE
             unread == {m \in messages : /\ m.conversation_id = c
                                         /\ ~m.is_read
                                         /\ m.sender_id # u}
             hit    == {n \in notifications : /\ n.user_id = u
                                              /\ n.related_conversation_id = c
                                              /\ ~n.is_read}
             notifications_updated == Cardinality(hit)
         IN
         IF u \notin Participants(conversation)
         THEN fault = "none" /\ Return(Failure("get_messages", u, c,
                HTTP_403_FORBIDDEN,
                "Not authorized to view this conversation"))
         ELSE IF unread = {}
         THEN fault = "none" /\ Return(R(HTTP_200_OK))
         ELSE IF fault = "main"
         THEN Return(R(HTTP_500_INTERNAL_SERVER_ERROR))
         ELSE /\ fault = "none"
              /\ messages' = (messages \ unread) \cup
                     {[m EXCEPT !.is_read = TRUE] : m \in unread}
              /\ notifications' = (notifications \ hit) \cup
                     {[n EXCEPT !.is_read = TRUE] : n \in hit}
              /\ conversations' = conversations
              /\ IF notifications_updated # 0
                 THEN Dispatch(<< Send(u, Event("notifications_read", c,
                                                notifications_updated),
                                       FALSE, FALSE) >>,
                               R(HTTP_200_OK))
                 ELSE Reply(R(HTTP_200_OK))
              /\ UNCHANGED <<transactions, item_status, next_conv_id,
                             next_msg_id, ws>>

\* POST /messages
CreateMessage(u, c, fault) ==
    LET R(status, id) == Response("create_message", u, c, NoArg, status, id) IN
    IF ConvRows(c) = {}
    THEN fault = "none" /\ Return(Failure("create_message", u, c,
                HTTP_404_NOT_FOUND,
                "Conversation not found"))
    ELSE LET conversation == CHOOSE r \in ConvRows(c) : TRUE
             recipient_id == OtherUser(conversation, u)
             message      == NewMessage(next_msg_id, c, u)
             notification == NewNotification(Cardinality(notifications) + 1,
                                 recipient_id, "message", c, u)
         IN
         IF u \notin Participants(conversation)
         THEN fault = "none" /\ Return(Failure("create_message", u, c,
                HTTP_403_FORBIDDEN,
                "Not authorized to send messages in this conversation"))
         ELSE /\ next_msg_id <= MaxMsgs
              /\ IF fault = "main"
                 THEN Return(R(HTTP_500_INTERNAL_SERVER_ERROR, None))
                 ELSE /\ messages' = messages \cup {message}
                      /\ next_msg_id' = next_msg_id + 1
                      /\ conversations' = Replace(conversation,
                            [conversation EXCEPT !.last_message_at = message.id])
                      /\ UNCHANGED <<transactions, item_status, next_conv_id, ws>>
                      /\ IF fault = "notif"
                         THEN /\ notifications' = notifications
                              /\ Reply(R(HTTP_500_INTERNAL_SERVER_ERROR, None))
                         ELSE /\ notifications' = notifications \cup {notification}
                              /\ Dispatch(
                                   << Send(recipient_id,
                                           Event("notification", c,
                                                 notification.id), TRUE, FALSE),
                                      Send(recipient_id,
                                           Event("message", c,
                                                 message.id), TRUE, FALSE) >>
                                   \o Broadcast(conversation),
                                   R(HTTP_200_OK, message.id))

\* A respond that never finds the pending offer missing.  C5 rests on the
\* check below.
PendingOfferUnchecked(r) == FALSE

\* `not conversation.pending_offer_price or not ...pending_offer_from_user_id`
NoPendingOffer(r) ==
    \/ r.pending_offer_price = NoPrice \/ r.pending_offer_price = 0
    \/ r.pending_offer_from_user_id = None

\* An offer handler without the sold check.  C16 rests on a sold
\* conversation never receiving a pending offer.
NeverSold(conversation) == FALSE

\* `if conversation.is_sold` of send_purchase_offer
AlreadySold(conversation) == conversation.is_sold

\* POST /conversations/{conversation_id}/offer
SendPurchaseOffer(u, c, sale_price, fault) ==
    LET arg == [NoArg EXCEPT !.price = sale_price]
        R(status) == Response("send_purchase_offer", u, c, arg, status, None)
    IN
    IF ConvRows(c) = {}
    THEN fault = "none" /\ Return(Failure("send_purchase_offer", u, c,
                HTTP_404_NOT_FOUND,
                "Conversation not found"))
    ELSE LET conversation  == CHOOSE r \in ConvRows(c) : TRUE
             other_user_id == OtherUser(conversation, u)
             offer_message == NewMessage(next_msg_id, c, u)
         IN
         IF u \notin Participants(conversation)
         THEN fault = "none" /\ Return(Failure("send_purchase_offer", u, c,
                HTTP_403_FORBIDDEN,
                "Not authorized to send offers in this conversation"))
         ELSE IF conversation.item_id = None
         THEN fault = "none" /\ Return(Failure("send_purchase_offer", u, c,
                HTTP_400_BAD_REQUEST,
                "Conversation is not associated with an item"))
         ELSE IF AlreadySold(conversation)
         THEN fault = "none" /\ Return(Failure("send_purchase_offer", u, c,
                HTTP_400_BAD_REQUEST,
                "Item already sold in this conversation"))
         ELSE /\ next_msg_id <= MaxMsgs
              /\ IF fault = "main"
                 THEN Return(R(HTTP_500_INTERNAL_SERVER_ERROR))
                 ELSE /\ conversations' = Replace(conversation,
                            [conversation EXCEPT
                                !.pending_offer_price = ToCents(sale_price),
                                !.pending_offer_from_user_id = u,
                                !.pending_offer_at = Now,
                                !.last_message_at = offer_message.id])
                      /\ messages' = messages \cup {offer_message}
                      /\ next_msg_id' = next_msg_id + 1
                      /\ UNCHANGED <<transactions, item_status, next_conv_id, ws>>
                      /\ IF fault = "notif"
                         THEN /\ notifications' = notifications
                              /\ Reply(R(HTTP_500_INTERNAL_SERVER_ERROR))
                         ELSE /\ notifications' = notifications \cup
                                    {NewNotification(Cardinality(notifications) + 1,
                                        other_user_id, "system", c, u)}
                              /\ Dispatch(
                                   << Send(other_user_id,
                                           Event("purchase_offer", c,
                                                 conversation.item_id), TRUE, FALSE),
                                      Send(other_user_id,
                                           Event("message", c,
                                                 offer_message.id), TRUE, FALSE) >>,
                                   R(HTTP_200_OK))

\* seller = db.query(User).filter(User.id == item.seller_id).first()
Seller(conversation) == seller_id(conversation.item_id)

\* buyer_id = conversation.user2_id if conversation.user1_id == seller.id
\*            else conversation.user1_id
Buyer(conversation) ==
    IF conversation.user1_id = Seller(conversation)
    THEN conversation.user2_id ELSE conversation.user1_id

\* A sale whose parties follow the direction of the offer: the proposer
\* buys, the other participant sells.  C3 rests on the parties coming from
\* item ownership instead.
SaleTransactionFromProposer(id, conversation, seller, buyer) ==
    NewTransaction(id, conversation.item_id,
                   OtherUser(conversation, conversation.pending_offer_from_user_id),
                   conversation.pending_offer_from_user_id, conversation.id,
                   conversation.pending_offer_price)

\* Transaction(item_id=item.id, seller_id=seller.id, buyer_id=buyer.id,
\*             conversation_id=..., sale_price=pending_offer_price / 100.0)
SaleTransaction(id, conversation, seller, buyer) ==
    NewTransaction(id, conversation.item_id, seller, buyer, conversation.id,
                   conversation.pending_offer_price)

\* An accept that commits the conversation and its message first and the
\* Transaction and the item afterwards, in a second commit that may fail.
\* C1 rests on the single commit of Accept.
AcceptInTwoCommits(u, conversation, seller, buyer, fault, arg) ==
    LET c == conversation.id
        R(status, id) == Response("respond_to_offer", u, c, arg, status, id)
        id             == Cardinality(transactions) + 1
        transaction    == SaleTransaction(id, conversation, seller, buyer)
        \* transaction.id read between db.add and the flush of db.commit
        unflushed_id   == None
        accept_message == NewMessage(next_msg_id, c, u)
        other_party_id == IF u = seller THEN buyer ELSE seller
    IN
    /\ next_msg_id <= MaxMsgs
    /\ IF fault = "main"
       THEN Return(R(HTTP_500_INTERNAL_SERVER_ERROR, None))
       ELSE /\ transactions' = IF fault = "notif" THEN transactions
                               ELSE transactions \cup {transaction}
            /\ item_status' = IF fault = "notif" THEN item_status
                              ELSE [item_status EXCEPT
                                       ![conversation.item_id] = "SOLD"]
            /\ conversations' = Replace(conversation,
                  [conversation EXCEPT
                      !.is_sold = TRUE,
                      !.sold_at = Now,
                      !.transaction_id = unflushed_id,
                      !.is_ended = TRUE,
                      !.ended_at = Now,
                      !.pending_offer_price = NoPrice,
                      !.pending_offer_from_user_id = None,
                      !.pending_offer_at = None,
                      !.last_message_at = accept_message.id])
            /\ messages' = messages \cup {accept_message}
            /\ next_msg_id' = next_msg_id + 1
            /\ UNCHANGED <<next_conv_id, ws>>
            /\ IF fault = "notif"
               THEN /\ notifications' = notifications
                    /\ Reply(R(HTTP_500_INTERNAL_SERVER_ERROR, None))
               ELSE /\ notifications' = notifications \cup
                          {NewNotification(Cardinality(notifications) + 1,
                              other_party_id, "system", c, u)}
                    /\ Dispatch(
                         << Send(seller, Event("item_sold", c, id),
                                 TRUE, FALSE),
                            Send(buyer, Event("item_sold", c, id),
                                 TRUE, FALSE) >>
                         \o Broadcast(conversation),
                         R(HTTP_200_OK, id))

\* An accept that sends the item_sold events before its commit, which may
\* then fail.  C11 rests on every send of Accept following its commit.
AcceptDispatchBeforeCommit(u, conversation, seller, buyer, fault, arg) ==
    LET c == conversation.id
        R(status, id) == Response("respond_to_offer", u, c, arg, status, id)
        id             == Cardinality(transactions) + 1
        transaction    == SaleTransaction(id, conversation, seller, buyer)
        accept_message == NewMessage(next_msg_id, c, u)
        other_party_id == IF u = seller THEN buyer ELSE seller
        sold           == << Send(seller, Event("item_sold", c, id), TRUE, FALSE),
                             Send(buyer, Event("item_sold", c, id), TRUE, FALSE) >>
    IN
    /\ next_msg_id <= MaxMsgs
    /\ IF fault = "main"
       THEN /\ UNCHANGED <<db, ws>>
            /\ Dispatch(sold, R(HTTP_500_INTERNAL_SERVER_ERROR, None))
       ELSE /\ transactions' = transactions \cup {transaction}
            /\ item_status' = [item_status EXCEPT ![conversation.item_id] = "SOLD"]
            /\ conversations' = Replace(conversation,
                  [conversation EXCEPT
                      !.is_sold = TRUE,
                      !.sold_at = Now,
                      !.transaction_id = None,
                      !.is_ended = TRUE,
                      !.ended_at = Now,
                      !.pending_offer_price = NoPrice,
                      !.pending_offer_from_user_id = None,
                      !.pending_offer_at = None,
                      !.last_message_at = accept_message.id])
            /\ messages' = messages \cup {accept_message}
            /\ next_msg_id' = next_msg_id + 1
            /\ UNCHANGED <<next_conv_id, ws>>
            /\ IF fault = "notif"
               THEN /\ notifications' = notifications
                    /\ Dispatch(sold, R(HTTP_500_INTERNAL_SERVER_ERROR, None))
               ELSE /\ notifications' = notifications \cup
                          {NewNotification(Cardinality(notifications) + 1,
                              other_party_id, "system", c, u)}
                    /\ Dispatch(sold \o Broadcast(conversation),
                                R(HTTP_200_OK, id))

\* respond_to_offer, action == "accept"
Accept(u, conversation, seller, buyer, fault, arg) ==
    LET c == conversation.id
        R(status, id) == Response("respond_to_offer", u, c, arg, status, id)
        id             == Cardinality(transactions) + 1
        transaction    == SaleTransaction(id, conversation, seller, buyer)
        \* transaction.id read between db.add and the flush of db.commit
        unflushed_id   == None
        accept_message == NewMessage(next_msg_id, c, u)
        other_party_id == IF u = seller THEN buyer ELSE seller
    IN
    /\ next_msg_id <= MaxMsgs
    /\ IF fault = "main"
       THEN Return(R(HTTP_500_INTERNAL_SERVER_ERROR, None))
       ELSE /\ transactions' = transactions \cup {transaction}
            /\ item_status' = [item_status EXCEPT ![conversation.item_id] = "SOLD"]
            /\ conversations' = Replace(conversation,
                  [conversation EXCEPT
                      !.is_sold = TRUE,
                      !.sold_at = Now,
                      !.transaction_id = unflushed_id,
                      !.is_ended = TRUE,
                      !.ended_at = Now,
                      !.pending_offer_price = NoPrice,
                      !.pending_offer_from_user_id = None,
                      !.pending_offer_at = None,
                      !.last_message_at = accept_message.id])
            /\ messages' = messages \cup {accept_message}
            /\ next_msg_id' = next_msg_id + 1
            /\ UNCHANGED <<next_conv_id, ws>>
            /\ IF fault = "notif"
               THEN /\ notifications' = notifications
                    /\ Reply(R(HTTP_500_INTERNAL_SERVER_ERROR, None))
               ELSE /\ notifications' = notifications \cup
                          {NewNotification(Cardinality(notifications) + 1,
                              other_party_id, "system", c, u)}
                    /\ Dispatch(
                         << Send(seller, Event("item_sold", c, id),
                                 TRUE, FALSE),
                            Send(buyer, Event("item_sold", c, id),
                                 TRUE, FALSE) >>
                         \o Broadcast(conversation),
                         R(HTTP_200_OK, id))

\* respond_to_offer, action == "reject"
RejectOffer(u, conversation, fault, arg) ==
    LET c == conversation.id
        R(status, id) == Response("respond_to_offer", u, c, arg, status, id)
        reject_message == NewMessage(next_msg_id, c, u)
        cleared        == [conversation EXCEPT
                              !.pending_offer_price = NoPrice,
                              !.pending_offer_from_user_id = None,
                              !.pending_offer_at = None,
                              !.last_message_at = reject_message.id]
        \* read from the conversation after the fields were cleared
        offer_sender_id == cleared.pending_offer_from_user_id
    IN
    /\ next_msg_id <= MaxMsgs
    /\ IF fault = "main"
       THEN Return(R(HTTP_500_INTERNAL_SERVER_ERROR, None))
       ELSE /\ conversations' = Replace(conversation, cleared)
            /\ messages' = messages \cup {reject_message}
            /\ next_msg_id' = next_msg_id + 1
            /\ UNCHANGED <<transactions, item_status, next_conv_id, ws>>
            /\ IF offer_sender_id # None /\ fault = "notif"
               THEN /\ notifications' = notifications
                    /\ Reply(R(HTTP_500_INTERNAL_SERVER_ERROR, None))
               ELSE /\ fault = "none"
                    /\ notifications' =
                          IF offer_sender_id # None
                          THEN notifications \cup
                                 {NewNotification(Cardinality(notifications) + 1,
                                     offer_sender_id, "system", c, u)}
                          ELSE notifications
                    /\ Dispatch(Broadcast(conversation),
                                R(HTTP_200_OK, None))

\* respond_to_offer, action == "counter"
Counter(u, conversation, counter_price, fault, arg) ==
    LET c == conversation.id
        R(status, id) == Response("respond_to_offer", u, c, arg, status, id)
        other_user_id   == OtherUser(conversation, u)
        counter_message == NewMessage(next_msg_id, c, u)
    IN
    IF counter_price = NoPrice \/ counter_price <= 0
    THEN fault = "none" /\ Return(Failure("respond_to_offer", u, c,
                HTTP_400_BAD_REQUEST,
                "Invalid counter offer price"))
    ELSE /\ next_msg_id <= MaxMsgs
         /\ IF fault = "main"
            THEN Return(R(HTTP_500_INTERNAL_SERVER_ERROR, None))
            ELSE /\ conversations' = Replace(conversation,
                       [conversation EXCEPT
                           !.pending_offer_price = ToCents(counter_price),
                           !.pending_offer_from_user_id = u,
                           !.pending_offer_at = Now,
                           !.last_message_at = counter_message.id])
                 /\ messages' = messages \cup {counter_message}
                 /\ next_msg_id' = next_msg_id + 1
                 /\ UNCHANGED <<transactions, item_status, next_conv_id, ws>>
                 /\ IF fault = "notif"
                    THEN /\ notifications' = notifications
                         /\ Reply(R(HTTP_500_INTERNAL_SERVER_ERROR, None))
                    ELSE /\ notifications' = notifications \cup
                               {NewNotification(Cardinality(notifications) + 1,
                                   other_user_id, "system", c, u)}
                         /\ Dispatch(
                              << Send(other_user_id,
                                      Event("purchase_offer", c,
                                            conversation.item_id), TRUE, FALSE) >>
                              \o Broadcast(conversation),
                              R(HTTP_200_OK, None))

\* POST /conversations/{conversation_id}/respond-offer
RespondToOffer(u, c, action, counter_price, fault) ==
    LET arg == [NoArg EXCEPT !.action = action, !.price = counter_price]
        R(status, id) == Response("respond_to_offer", u, c, arg, status, id)
    IN
    IF ConvRows(c) = {}
    THEN fault = "none" /\ Return(Failure("respond_to_offer", u, c,
                HTTP_404_NOT_FOUND,
                "Conversation not found"))
    ELSE LET conversation == CHOOSE r \in ConvRows(c) : TRUE
             seller == Seller(conversation)     \* always the item owner
             buyer  == Buyer(conversation)
         IN
         IF u \notin Participants(conversation)
         THEN fault = "none" /\ Return(Failure("respond_to_offer", u, c,
                HTTP_403_FORBIDDEN,
                "Not authorized to respond to offers in this conversation"))
         ELSE IF NoPendingOffer(conversation)
         THEN fault = "none" /\ Return(Failure("respond_to_offer", u, c,
                HTTP_400_BAD_REQUEST,
                "No pending offer to respond to"))
         ELSE IF conversation.item_id \notin Items
         THEN fault = "none" /\ Return(Failure("respond_to_offer", u, c,
                HTTP_404_NOT_FOUND,
                "Item not found"))
         ELSE IF action = "accept"
         THEN Accept(u, conversation, seller, buyer, fault, arg)
         ELSE IF action = "reject"
         THEN RejectOffer(u, conversation, fault, arg)
         ELSE IF action = "counter"
         THEN Counter(u, conversation, counter_price, fault, arg)
         ELSE fault = "none" /\ Return(Failure("respond_to_offer", u, c,
                HTTP_400_BAD_REQUEST,
                "Invalid action. Must be 'accept', 'reject', or 'counter'"))

\* A delete that removes the conversation and its messages and leaves the
\* references of notifications and transactions as they are.  C19 rests on
\* the two updates that precede db.delete.
DeleteLeavesReferences(u, c, fault) ==
    LET R(status) == Response("delete_conversation", u, c, NoArg, status, None) IN
    IF ConvRows(c) = {}
    THEN fault = "none" /\ Return(Failure("delete_conversation", u, c,
                HTTP_404_NOT_FOUND,
                "Conversation not found"))
    ELSE LET conversation == CHOOSE r \in ConvRows(c) : TRUE IN
         IF u \notin Participants(conversation)
         THEN fault = "none" /\ Return(Failure("delete_conversation", u, c,
                HTTP_403_FORBIDDEN,
                "Not authorized to delete this conversation"))
         ELSE IF fault = "main"
         THEN Return(R(HTTP_500_INTERNAL_SERVER_ERROR))
         ELSE /\ fault = "none"
              /\ conversations' = conversations \ {conversation}
              /\ messages' = {m \in messages : m.conversation_id # c}
              /\ Reply(R(HTTP_200_OK))
              /\ UNCHANGED <<notifications, transactions, item_status,
                             next_conv_id, next_msg_id, ws>>

\* A delete that removes the Transactions of the conversation with it.  C30
\* rests on the update that only nulls their conversation link.
CascadeTransactions(c) == {t \in transactions : t.conversation_id # c}

\* db.query(Transaction).filter(Transaction.conversation_id == conversation_id)
\*   .update({Transaction.conversation_id: None})
UnlinkTransactions(c) ==
    {IF t.conversation_id = c
     THEN [t EXCEPT !.conversation_id = None] ELSE t
     : t \in transactions}

\* DELETE /conversations/{conversation_id}
DeleteConversation(u, c, fault) ==
    LET R(status) == Response("delete_conversation", u, c, NoArg, status, None) IN
    IF ConvRows(c) = {}
    THEN fault = "none" /\ Return(Failure("delete_conversation", u, c,
                HTTP_404_NOT_FOUND,
                "Conversation not found"))
    ELSE LET conversation == CHOOSE r \in ConvRows(c) : TRUE IN
         IF u \notin Participants(conversation)
         THEN fault = "none" /\ Return(Failure("delete_conversation", u, c,
                HTTP_403_FORBIDDEN,
                "Not authorized to delete this conversation"))
         ELSE IF fault = "main"
         THEN Return(R(HTTP_500_INTERNAL_SERVER_ERROR))      \* db.rollback()
         ELSE /\ fault = "none"
              /\ notifications' =
                    {IF n.related_conversation_id = c
                     THEN [n EXCEPT !.related_conversation_id = None] ELSE n
                     : n \in notifications}
              /\ transactions' = UnlinkTransactions(c)
              /\ conversations' = conversations \ {conversation}
              /\ messages' = {m \in messages : m.conversation_id # c}
              /\ Reply(R(HTTP_200_OK))
              /\ UNCHANGED <<item_status, next_conv_id, next_msg_id, ws>>

\* POST /conversations/{conversation_id}/report
ReportConversation(u, c, fault) ==
    LET R(status) == Response("report_conversation", u, c, NoArg, status, None) IN
    IF ConvRows(c) = {}
    THEN fault = "none" /\ Return(Failure("report_conversation", u, c,
                HTTP_404_NOT_FOUND,
                "Conversation not found"))
    ELSE LET conversation == CHOOSE r \in ConvRows(c) : TRUE IN
         IF u \notin Participants(conversation)
         THEN fault = "none" /\ Return(Failure("report_conversation", u, c,
                HTTP_403_FORBIDDEN,
                "Not authorized to report this conversation"))
         ELSE IF fault = "main"
         THEN Return(R(HTTP_500_INTERNAL_SERVER_ERROR))
         ELSE /\ fault = "none"
              /\ conversations' = Replace(conversation,
                    [conversation EXCEPT !.is_reported = TRUE])
              /\ Reply(R(HTTP_200_OK))
              /\ UNCHANGED <<messages, notifications, transactions, item_status,
                             next_conv_id, next_msg_id, ws>>

\* PUT /conversations/{conversation_id}/archive: the per-user status columns
\* are not part of the Conversation model, so the commit writes updated_by
\* only, which is not among the fields kept here.
ArchiveConversation(u, c, fault) ==
    LET R(status) == Response("archive_conversation", u, c, NoArg, status, None) IN
    IF ConvRows(c) = {}
    THEN fault = "none" /\ Return(Failure("archive_conversation", u, c,
                HTTP_404_NOT_FOUND,
                "Conversation not found"))
    ELSE LET conversation == CHOOSE r \in ConvRows(c) : TRUE IN
         IF u \notin Participants(conversation)
         THEN fault = "none" /\ Return(Failure("archive_conversation", u, c,
                HTTP_403_FORBIDDEN,
                "Not authorized to archive this conversation"))
         ELSE IF fault = "main"
         THEN Return(R(HTTP_500_INTERNAL_SERVER_ERROR))
         ELSE /\ fault = "none"
              /\ conversations' = conversations
              /\ Reply(R(HTTP_200_OK))
              /\ UNCHANGED <<messages, notifications, transactions, item_status,
                             next_conv_id, next_msg_id, ws>>

\* A continue that re-opens the sale as well.  C17 rests on continue
\* writing is_ended and ended_at only.
ContinueReopensSale(u, c, fault) ==
    LET R(status) == Response("continue_conversation", u, c, NoArg, status, None) IN
    IF ConvRows(c) = {}
    THEN fault = "none" /\ Return(Failure("continue_conversation", u, c,
                HTTP_404_NOT_FOUND,
                "Conversation not found"))
    ELSE LET conversation == CHOOSE r \in ConvRows(c) : TRUE IN
         IF u \notin Participants(conversation)
         THEN fault = "none" /\ Return(Failure("continue_conversation", u, c,
                HTTP_403_FORBIDDEN,
                "Not authorized to continue this conversation"))
         ELSE /\ fault = "none"
              /\ conversations' = Replace(conversation,
                    [conversation EXCEPT !.is_ended = FALSE, !.ended_at = None,
                                         !.is_sold = FALSE])
              /\ Reply(R(HTTP_200_OK))
              /\ UNCHANGED <<messages, notifications, transactions, item_status,
                             next_conv_id, next_msg_id, ws>>

\* PUT /conversations/{conversation_id}/continue
ContinueConversation(u, c, fault) ==
    LET R(status) == Response("continue_conversation", u, c, NoArg, status, None) IN
    IF ConvRows(c) = {}
    THEN fault = "none" /\ Return(Failure("continue_conversation", u, c,
                HTTP_404_NOT_FOUND,
                "Conversation not found"))
    ELSE LET conversation == CHOOSE r \in ConvRows(c) : TRUE IN
         IF u \notin Participants(conversation)
         THEN fault = "none" /\ Return(Failure("continue_conversation", u, c,
                HTTP_403_FORBIDDEN,
                "Not authorized to continue this conversation"))
         ELSE IF fault = "main"
         THEN Return(R(HTTP_500_INTERNAL_SERVER_ERROR))
         ELSE /\ fault = "none"
              /\ conversations' = Replace(conversation,
                    [conversation EXCEPT !.is_ended = FALSE, !.ended_at = None])
              /\ Reply(R(HTTP_200_OK))
              /\ UNCHANGED <<messages, notifications, transactions, item_status,
                             next_conv_id, next_msg_id, ws>>

\* ----------------------------------------------------------------- ratings
\* rate_user, get_user_rating_summary and the other plain `def` handlers run
\* in worker threads, each with its own session: what one of them read
\* before its commit may have been changed by another in between.

\* RatingCreate.rating (1..5) with RatingCreate.comment (absent or a text)
NoComment    == ""
RatingInputs == {[rating |-> 5, comment |-> "great"],
                 [rating |-> 2, comment |-> NoComment]}

\* transaction ids a request may name: that of any row, or one of no row
TxIds == {t.id : t \in transactions} \cup {Cardinality(transactions) + 1}

\* Rating(transaction_id=..., rater_id=..., rated_user_id=..., rating=...,
\*        comment=...)
NewRating(id, tx, rater, rated, inp) ==
    [id |-> id, transaction_id |-> tx, rater_id |-> rater,
     rated_user_id |-> rated, rating |-> inp.rating, comment |-> inp.comment]

\* rate_user from its first line to the query for an existing rating: the
\* request is refused, or it goes on to its commit knowing the row it found
RateUserQuery(u, tx, rated, inp) ==
    LET arg == [NoArg EXCEPT !.tx = tx, !.to = rated, !.rating = inp.rating]
        rows == {t \in transactions : t.id = tx}
        free == {n \in 1..MaxRateCalls : \A k \in rate_calls : k.thread # n}
    IN
    /\ UNCHANGED <<db, ws, inflight, ratings>>
    /\ IF rows = {}
       THEN /\ resp' = Failure("rate_user", u, None, HTTP_404_NOT_FOUND,
                               "Transaction not found")
            /\ UNCHANGED rate_calls
       ELSE LET transaction   == CHOOSE t \in rows : TRUE
                other_user_id == IF transaction.seller_id = u
                                 THEN transaction.buyer_id
                                 ELSE transaction.seller_id
                found == {r \in ratings : /\ r.transaction_id = tx
                                          /\ r.rater_id = u}
            IN
            IF u \notin {transaction.seller_id, transaction.buyer_id}
            THEN /\ resp' = Failure("rate_user", u, None, HTTP_403_FORBIDDEN,
                               "Not authorized to rate for this transaction")
                 /\ UNCHANGED rate_calls
            ELSE IF rated # other_user_id
            THEN /\ resp' = Failure("rate_user", u, None, HTTP_400_BAD_REQUEST,
                               "Can only rate the other party in the transaction")
                 /\ UNCHANGED rate_calls
            ELSE /\ free # {}
                 /\ \E existing_rating \in
                        IF found = {} THEN {None} ELSE {r.id : r \in found} :
                       rate_calls' = rate_calls \cup
                          {[thread |-> CHOOSE n \in free : \A k \in free : n <= k,
                            user |-> u, tx |-> tx, rated |-> rated, inp |-> inp,
                            existing_rating |-> existing_rating]}
                 /\ resp' = [Response("rate_user", u, None, arg, Suspended, None)
                                EXCEPT !.step = "query"]

\* rate_user from `if existing_rating:` to its return: update the row found
\* or add a new one, commit
RateUserCommit(call, fault) ==
    LET arg == [NoArg EXCEPT !.tx = call.tx, !.to = call.rated,
                             !.rating = call.inp.rating]
        R(status, id) == [Response("rate_user", call.user, None, arg, status, id)
                             EXCEPT !.step = "commit"]
        rating == NewRating(Cardinality(ratings) + 1, call.tx, call.user,
                            call.rated, call.inp)
    IN
    /\ call \in rate_calls
    /\ rate_calls' = rate_calls \ {call}
    /\ UNCHANGED <<db, ws, inflight>>
    /\ IF fault = "main"
       THEN /\ ratings' = ratings
            /\ resp' = R(HTTP_500_INTERNAL_SERVER_ERROR, None)
       ELSE IF call.existing_rating # None
       THEN /\ ratings' = {IF r.id = call.existing_rating
                           THEN [r EXCEPT !.rating = call.inp.rating,
                                          !.comment = call.inp.comment]
                           ELSE r : r \in ratings}
            /\ resp' = R(HTTP_200_OK, call.existing_rating)
       ELSE /\ Cardinality(ratings) < MaxRatings
            /\ ratings' = ratings \cup {rating}
            /\ resp' = R(HTTP_200_OK, rating.id)

\* sum(r.rating for r in ratings)
RECURSIVE SumRatings(_)
SumRatings(rows) ==
    IF rows = {} THEN 0
    ELSE LET r == CHOOSE r \in rows : TRUE
         IN  r.rating + SumRatings(rows \ {r})

\* round(total / count, 2), in hundredths
AverageRating(rows) ==
    (200 * SumRatings(rows) + Cardinality(rows)) \div (2 * Cardinality(rows))

\* The body of get_user_rating_summary's response, but for viewer_rating
RatingSummary(user_id) ==
    LET rows == {r \in ratings : r.rated_user_id = user_id} IN
    IF rows = {}
    THEN [average_rating |-> None, rating_count |-> 0]
    ELSE [average_rating |-> AverageRating(rows),
          rating_count |-> Cardinality(rows)]

\* GET /users/{user_id}/rating-summary
GetUserRatingSummary(viewer, user_id) ==
    /\ resp' = Response("get_user_rating_summary", viewer, None,
                        [NoArg EXCEPT !.to = user_id], HTTP_200_OK,
                        RatingSummary(user_id))
    /\ UNCHANGED <<db, ws, inflight, ratings, rate_calls>>

\* ------------------------------------------------------------ item reports
NonItem       == 3                      \* an id of no row of items
ItemIds       == Items \cup {NonItem}
valid_report_types == {"incomplete_info", "no_photos", "inappropriate", "other"}
ReportTypes   == {"incomplete_info", "other", "spam"}
NoDescription == ""
Descriptions  == {NoDescription, "wrong price"}

\* ItemReport(item_id=..., reported_by_user_id=..., seller_id=..., ...)
NewItemReport(id, item, u, report_type) ==
    [id |-> id, item_id |-> item, reported_by_user_id |-> u,
     seller_id |-> seller_id(item), report_type |-> report_type,
     is_resolved |-> FALSE, is_dismissed |-> FALSE]

\* notification_data of mark_item_incomplete; the title stands for the item
notification_data(report) ==
    [item_id |-> report.item_id, item_title |-> report.item_id,
     report_id |-> report.id, seller_id |-> report.seller_id,
     message |-> "An anonymous user has reported your listing as incomplete",
     timestamp |-> Now]

\* wrapped_notification = {"type": "item_reported", "data": notification_data}
wrapped_notification(report) ==
    [type |-> "item_reported", data |-> notification_data(report)]

\* The event of send_notification_via_websocket:
\* {"type": "notification", "data": notification_data}
NotificationEnvelope(data) ==
    [type |-> "notification", conv |-> None, ref |-> None, data |-> data]

\* send_notification_via_websocket(user_id, notification_data): one guarded
\* send to the user's registered channel, if any
send_notification_via_websocket(user_id, data) ==
    << Send(user_id, NotificationEnvelope(data), TRUE, FALSE) >>

\* POST /items/{item_id}/mark-incomplete.  The route runs in a worker thread
\* and hands the send to the event loop with anyio.from_thread.run, waiting
\* for it to come back; the hand-off is taken to be immediate.
MarkItemIncomplete(u, item_id, report_type, description, fault) ==
    LET op == "mark_item_incomplete"
        arg == [NoArg EXCEPT !.item = item_id, !.action = report_type]
        R(status, id) == Response(op, u, None, arg, status, id)
        existing_report == {r \in item_reports : /\ r.item_id = item_id
                                                 /\ ~r.is_resolved
                                                 /\ ~r.is_dismissed}
        report == NewItemReport(Cardinality(item_reports) + 1, item_id, u,
                                report_type)
    IN
    IF item_id \notin Items
    THEN /\ fault = "none"
         /\ Return(Failure(op, u, None, HTTP_404_NOT_FOUND, "Item not found"))
         /\ UNCHANGED item_reports
    ELSE IF seller_id(item_id) = u
    THEN /\ fault = "none"
         /\ Return(Failure(op, u, None, HTTP_400_BAD_REQUEST,
                           "You cannot report your own listing"))
         /\ UNCHANGED item_reports
    ELSE IF report_type \notin valid_report_types
    THEN /\ fault = "none"
         /\ Return(Failure(op, u, None, HTTP_400_BAD_REQUEST,
                           "Invalid report type"))
         /\ UNCHANGED item_reports
    ELSE IF report_type = "other" /\ description = NoDescription
    THEN /\ fault = "none"
         /\ Return(Failure(op, u, None, HTTP_400_BAD_REQUEST,
                   "Description is required for 'other' report type"))
         /\ UNCHANGED item_reports
    ELSE IF existing_report # {}
    THEN /\ fault = "none"
         /\ Return(Failure(op, u, None, HTTP_400_BAD_REQUEST,
                   "This item has already been reported as incomplete"))
         /\ UNCHANGED item_reports
    ELSE IF fault = "main"
    THEN /\ Return(R(HTTP_500_INTERNAL_SERVER_ERROR, None))
         /\ UNCHANGED item_reports
    ELSE /\ fault = "none"
         /\ item_reports' = item_reports \cup {report}
         /\ Dispatch(send_notification_via_websocket(
                         report.seller_id, wrapped_notification(report)),
                     R(HTTP_200_OK, report.id))
         /\ UNCHANGED <<db, ws>>

\* ------------------------------------------------------------------ inputs
ItemInputs    == Items \cup {None}              \* item_id: Optional[int]
Actions       == {"accept", "reject", "counter", "cancel"}
CounterInputs == PriceInputs \cup {NoPrice, 0, -500}   \* counter_price or absent

\* Requests by group: US are the callers and FS the commit faults that may
\* strike; the other inputs range over all their values.  The chat and
\* channel handlers never touch the ratings table or a rate_user request.
Create(US, U2S, FS) ==
    /\ \E u \in US, u2 \in U2S, i \in ItemInputs, f \in FS :
          CreateConversation(u, u2, i, f)
    /\ UNCHANGED <<rating_state, item_reports>>
Chat(US, FS) ==
    /\ \E u \in US, c \in ConvIds, f \in FS : CreateMessage(u, c, f)
    /\ UNCHANGED <<rating_state, item_reports>>
Read(US, FS) ==
    /\ \E u \in US, c \in ConvIds, f \in FS : GetMessages(u, c, f)
    /\ UNCHANGED <<rating_state, item_reports>>
Offer(US, FS) ==
    /\ \E u \in US, c \in ConvIds, p \in PriceInputs, f \in FS :
          SendPurchaseOffer(u, c, p, f)
    /\ UNCHANGED <<rating_state, item_reports>>
Respond(US, FS) ==
    /\ \E u \in US, c \in ConvIds, a \in Actions, p \in CounterInputs, f \in FS :
          /\ a # "counter" => p = NoPrice
          /\ RespondToOffer(u, c, a, p, f)
    /\ UNCHANGED <<rating_state, item_reports>>
Delete(US, FS) ==
    /\ \E u \in US, c \in ConvIds, f \in FS : DeleteConversation(u, c, f)
    /\ UNCHANGED <<rating_state, item_reports>>
Report(US, FS) ==
    /\ \E u \in US, c \in ConvIds, f \in FS : ReportConversation(u, c, f)
    /\ UNCHANGED <<rating_state, item_reports>>
Archive(US, FS) ==
    /\ \E u \in US, c \in ConvIds, f \in FS : ArchiveConversation(u, c, f)
    /\ UNCHANGED <<rating_state, item_reports>>
Continue(US, FS) ==
    /\ \E u \in US, c \in ConvIds, f \in FS : ContinueConversation(u, c, f)
    /\ UNCHANGED <<rating_state, item_reports>>
Connect(US) ==
    /\ \E u \in US, t \in Tokens : WsConnect(u, t)
    /\ UNCHANGED <<rating_state, item_reports>>
\* The same requests with the item, the price or the action drawn from a
\* given set: IS item ids, PS prices, AS actions (a counter asks for 0.50).
CreateAbout(US, U2S, IS, FS) ==
    /\ \E u \in US, u2 \in U2S, i \in IS, f \in FS :
          CreateConversation(u, u2, i, f)
    /\ UNCHANGED <<rating_state, item_reports>>
OfferAt(US, PS, FS) ==
    /\ \E u \in US, c \in ConvIds, p \in PS, f \in FS :
          SendPurchaseOffer(u, c, p, f)
    /\ UNCHANGED <<rating_state, item_reports>>
RespondWith(US, AS, FS) ==
    /\ \E u \in US, c \in ConvIds, a \in AS, f \in FS :
          RespondToOffer(u, c, a, IF a = "counter" THEN 500 ELSE NoPrice, f)
    /\ UNCHANGED <<rating_state, item_reports>>
Rate(US) ==
    /\ \E u \in US, tx \in TxIds, rated \in Users, inp \in RatingInputs :
          RateUserQuery(u, tx, rated, inp)
    /\ UNCHANGED item_reports
RateCommit(FS) ==
    /\ \E call \in rate_calls, f \in FS : RateUserCommit(call, f)
    /\ UNCHANGED item_reports
Summary(US) ==
    /\ \E viewer \in US, u \in Users : GetUserRatingSummary(viewer, u)
    /\ UNCHANGED item_reports
\* reports of a listing: every item id, report type and description
ReportItem(US, FS) ==
    /\ \E u \in US, i \in ItemIds, t \in ReportTypes, d \in Descriptions,
          f \in FS : MarkItemIncomplete(u, i, t, d, f)
    /\ UNCHANGED rating_state
\* connections that present the token issued to their user
Join(US) ==
    /\ \E u \in US : WsConnect(u, TokenOf(u))
    /\ UNCHANGED <<rating_state, item_reports>>
Channel ==
    /\ \/ \E ch \in ChannelIds : ClientGone(ch)
       \/ \E ch \in ChannelIds : WsDisconnect(ch)
    /\ UNCHANGED <<rating_state, item_reports>>
Resume ==
    /\ \E r \in inflight : CompleteSend(r)
    /\ UNCHANGED <<rating_state, item_reports>>
Stall ==
    /\ \E ch \in ChannelIds : ClientStalls(ch)
    /\ UNCHANGED <<rating_state, item_reports>>

\* --------------------------------------------------------- specifications
\* Negotiation over the one conversation that user 2 opens with user 1 about
\* no item, item 1 (owned by user 1) or item 2 (owned by user 3); user 3
\* calls as an outsider.  No connection is open, so every handler runs from
\* start to end in one step.
NegConvs == 1
NegMsgs  == 2
Next ==
    \/ Create({2}, {1}, {"none"}) /\ next_conv_id' <= NegConvs + 1
    \/ Chat({1, 2}, {"none"}) /\ next_msg_id' <= NegMsgs + 1
    \/ Offer(Users, {"none"}) /\ next_msg_id' <= NegMsgs + 1
    \/ Respond(Users, Faults) /\ next_msg_id' <= NegMsgs + 1
    \/ Delete({1}, {"none", "main"})
    \/ Continue({1}, {"none"})

Spec == Init /\ [][Next]_vars

\* A sale while the users connect: user 2 opens the conversation with user 1
\* about item 1 (of user 1) or item 2 (of user 3) and offers 0.50, either of
\* them accepts or rejects, and the events go to whoever is registered.
NextSale ==
    \/ CreateAbout({2}, {1}, Items, {"none"}) /\ next_conv_id' <= NegConvs + 1
    \/ OfferAt({2}, {500}, {"none"}) /\ next_msg_id' <= NegMsgs + 1
    \/ RespondWith({1, 2}, {"accept", "reject"}, Faults)
          /\ next_msg_id' <= NegMsgs + 1
    \/ Join(Users)
    \/ Resume

SpecSale == Init /\ [][NextSale]_vars

\* Life of one conversation after its sale: users 2 and 1 chat, offer,
\* respond, continue and re-point the conversation, up to MaxMsgs messages.
NextSold ==
    \/ Create({2}, {1}, {"none"}) /\ next_conv_id' <= NegConvs + 1
    \/ Chat({1, 2}, {"none"})
    \/ OfferAt({1, 2}, {500}, {"none"})
    \/ RespondWith({1, 2}, Actions, {"none"})
    \/ Continue({1, 2}, {"none"})

SpecSold == Init /\ [][NextSold]_vars

\* A conversation that is reported at any point of its life: users 2 and 1
\* chat, negotiate, continue, archive and re-point it, any user tries to
\* report it.
ReportMsgs == 3
NextReport ==
    \/ Create({2}, {1}, {"none"}) /\ next_conv_id' <= NegConvs + 1
    \/ Chat({1, 2}, {"none"}) /\ next_msg_id' <= ReportMsgs + 1
    \/ OfferAt({1, 2}, {500}, {"none"}) /\ next_msg_id' <= ReportMsgs + 1
    \/ RespondWith({1, 2}, Actions, {"none"}) /\ next_msg_id' <= ReportMsgs + 1
    \/ Continue({1}, {"none"})
    \/ Archive({1}, {"none"})
    \/ Report(Users, {"none", "main"})

SpecReport == Init /\ [][NextReport]_vars

\* Ratings of one sale: user 2 buys item 1 from user 1, then the users rate,
\* up to MaxRateCalls requests at a time.
NextRate ==
    \/ CreateAbout({2}, {1}, {1}, {"none"}) /\ next_conv_id' <= NegConvs + 1
    \/ OfferAt({2}, {500}, {"none"}) /\ next_msg_id' <= NegMsgs + 1
    \/ RespondWith({1}, {"accept"}, {"none"}) /\ next_msg_id' <= NegMsgs + 1
    \/ Rate(Users)
    \/ RateCommit({"none", "main"})
    \/ Summary({1})

SpecRate == Init /\ [][NextRate]_vars

\* Conversation rows for every pair of users
NextConv ==
    \/ Create(Users, Users \cup {NonUser}, {"none", "main"})
    \/ Delete(Users, {"none", "main"})

SpecConv == Init /\ [][NextConv]_vars

\* Connections of user 1 and the dispatch of the events of one conversation
\* to them; user 3 calls as an outsider.
WsMsgs == 1
NextWs ==
    \/ Create({2}, {1}, {"none"})
    \/ Chat(Users, {"none"}) /\ next_msg_id' <= WsMsgs + 1
    \/ Read({1}, {"none"})
    \/ Connect({1})
    \/ Channel
    \/ Resume

SpecWs == Init /\ [][NextWs]_vars

\* Messages of users 1, 2 and the outsider 3 on one conversation while user 1
\* connects; every connection stays up.
ChatChannels == 1
NextChat ==
    \/ Create({2}, {1}, {"none"})
    \/ Chat(Users, {"none"}) /\ next_msg_id' <= WsMsgs + 1
    \/ Connect({1}) /\ Len(channels') <= ChatChannels
    \/ Resume

SpecChat == Init /\ [][NextChat]_vars

\* Messages of user 2 to user 1, whose one connection may stall or go away.
\* The event loop resumes a handler once the send it awaits has come back,
\* hence the weak fairness of Resume; nothing makes a stalled peer read.
NextStall ==
    \/ Create({2}, {1}, {"none"})
    \/ Chat({1, 2}, {"none"})
    \/ Join({1}) /\ Len(channels') <= ChatChannels
    \/ Stall
    \/ Channel
    \/ Resume

SpecStall == Init /\ [][NextStall]_vars /\ WF_vars(Resume)

\* Reports of the listings of users 1 and 3 by every user, while the seller 1
\* and the reporter 2 connect and their peers go away.
NextItemReport ==
    \/ ReportItem(Users, {"none", "main"})
    \/ Join({1, 2})
    \/ Channel
    \/ Resume

SpecItemReport == Init /\ [][NextItemReport]_vars

\* The transactions table under everything that can follow a sale: further
\* offers, counters and accepts, continue, report, re-pointing of the
\* conversation to the other item and back, and deletion of the conversation
\* (after which the pair may open a new one).
NextLedger ==
    \/ CreateAbout({2}, {1}, Items, {"none"})
    \/ OfferAt({1, 2}, {500}, {"none"})
    \/ RespondWith({1, 2}, {"accept", "counter"}, {"none"})
    \/ Continue({1}, {"none"})
    \/ Report({2}, {"none"})
    \/ Delete({1}, {"none", "main"})

SpecLedger == Init /\ [][NextLedger]_vars

\* Connections alone: every user connects with every kind of token, peers go
\* away and handlers end.
NextAuth ==
    \/ Connect(Users)
    \/ Channel

SpecAuth == Init /\ [][NextAuth]_vars

\* ------------------------------------------------------------- properties
ClientErrors == {HTTP_400_BAD_REQUEST, HTTP_403_FORBIDDEN, HTTP_404_NOT_FOUND}

\* The step just taken was the database part of a respond_to_offer whose
\* action is a (status 4xx responses carry no arguments, so a step seen here
\* passed every check of the handler)
RespondDone(a) ==
    /\ resp'.op = "respond_to_offer"
    /\ resp'.step = "db"
    /\ resp'.arg.action = a

\* C1, state part: a conversation with is_sold = true always has a persisted
\* Transaction whose conversation_id is that conversation.
SoldHasTransaction ==
    \A r \in conversations :
        r.is_sold => \E t \in transactions : t.conversation_id = r.id

\* C1, step part: the writes of a committed accept, all in the one step.
AcceptEffect ==
    \E old \in conversations, new \in conversations', t \in transactions' :
        /\ old.id = resp'.conv /\ new.id = old.id
        /\ t \notin transactions
        /\ transactions' = transactions \cup {t}
        /\ t.conversation_id = old.id
        /\ item_status' = [item_status EXCEPT ![old.item_id] = "SOLD"]
        /\ new.is_sold /\ new.is_ended
        /\ new.pending_offer_price = NoPrice
        /\ new.pending_offer_from_user_id = None
        /\ new.pending_offer_at = None

\* C1: a successful accept creates exactly one Transaction, marks the item
\* SOLD, sets is_sold and is_ended and clears the pending offer in one step;
\* an accept that fails either changed nothing or committed all of it; and in
\* no reachable state is a conversation sold without a Transaction for it.
C1_AcceptAtomic ==
    /\ [] SoldHasTransaction
    /\ [][RespondDone("accept") =>
            IF resp'.status = HTTP_500_INTERNAL_SERVER_ERROR
            THEN AcceptEffect \/ UNCHANGED <<conversations, messages,
                                   notifications, transactions, item_status>>
            ELSE AcceptEffect]_vars

\* C1 case: an accept returned 200 and left the conversation sold, its
\* Transaction persisted and the item SOLD.
C1_Witness ==
    /\ resp.op = "respond_to_offer" /\ resp.arg.action = "accept"
    /\ resp.status = HTTP_200_OK
    /\ \E r \in conversations, t \in transactions :
          /\ r.id = resp.conv /\ r.is_sold /\ r.is_ended
          /\ t.conversation_id = r.id
          /\ item_status[r.item_id] = "SOLD"

\* C2, state part: no two rows for the same unordered pair, no row of a user
\* with themself.
OneRowPerPair ==
    \A r1, r2 \in conversations :
        /\ r1.user1_id # r1.user2_id
        /\ {r1.user1_id, r1.user2_id} = {r2.user1_id, r2.user2_id} => r1 = r2

\* C2: at most one conversation row per unordered pair of users; a create
\* request for a pair that has a row returns that row's id and adds none, in
\* whichever order the pair is given; a request that does not return 200
\* (a user with themself is one) leaves the rows as they were.
C2_OneConversationPerPair ==
    /\ [] OneRowPerPair
    /\ [][resp'.op = "create_conversation" =>
            IF resp'.status = HTTP_200_OK
            THEN /\ resp'.arg.to # resp'.user
                 /\ \E new \in conversations' :
                       /\ new.id = resp'.val
                       /\ {new.user1_id, new.user2_id} =
                              {resp'.user, resp'.arg.to}
                 /\ \A old \in conversations :
                       {old.user1_id, old.user2_id} = {resp'.user, resp'.arg.to}
                          => /\ resp'.val = old.id
                             /\ {r.id : r \in conversations'} =
                                    {r.id : r \in conversations}
            ELSE conversations' = conversations]_vars

\* C2 case: B asked for a conversation with A while the row created as
\* A -> B exists, and got that row.
C2_Witness ==
    /\ resp.op = "create_conversation"
    /\ resp.status = HTTP_200_OK
    /\ \E r \in conversations :
          /\ r.id = resp.val
          /\ r.user1_id = resp.arg.to /\ r.user2_id = resp.user

\* C3: the Transaction of a committed accept references the conversation's
\* item, its seller is the owner of that item, its buyer is a participant
\* other than the seller (the other participant when the seller is one), and
\* its price is the pending offer's, whoever proposed and whoever accepted.
C3_TransactionParties ==
    [][RespondDone("accept") /\ transactions' # transactions =>
         \E old \in conversations :
            /\ old.id = resp'.conv
            /\ \A t \in transactions' \ transactions :
                  /\ t.item_id = old.item_id
                  /\ t.seller_id = seller_id(old.item_id)
                  /\ t.buyer_id \in {old.user1_id, old.user2_id} \ {t.seller_id}
                  /\ t.sale_price_cents = old.pending_offer_price]_vars

\* C3 case: the buyer accepted a 50-cent offer on item 1 of user 1; the
\* Transaction names user 1 as seller and the accepting user 2 as buyer.
C3_Witness ==
    /\ resp.op = "respond_to_offer" /\ resp.arg.action = "accept"
    /\ resp.status = HTTP_200_OK /\ resp.user = 2
    /\ \E t \in transactions :
          /\ t.id = resp.val
          /\ t.item_id = 1 /\ t.seller_id = 1 /\ t.buyer_id = 2
          /\ t.sale_price_cents = 50

\* C4: after a committed counter by X with a price of whole cents, the pending
\* offer is from X at that number of cents, the conversation is unsold and
\* the transactions are as before.
C4_CounterSetsPendingOffer ==
    [][RespondDone("counter") /\ conversations' # conversations
         /\ resp'.arg.price % 10 = 0 =>
         \E new \in conversations' :
            /\ new.id = resp'.conv
            /\ new.pending_offer_from_user_id = resp'.user
            /\ new.pending_offer_price * 10 = resp'.arg.price
            /\ ~new.is_sold
            /\ transactions' = transactions]_vars

\* C5: a respond_to_offer that returns a client error changes nothing, and a
\* respond_to_offer that does not return one was made by a participant, on a
\* conversation with a pending offer, with action accept, reject or counter
\* and, for counter, a price above zero.
C5_RejectedRespondChangesNothing ==
    [][resp'.op = "respond_to_offer" /\ resp'.step = "db" =>
         IF resp'.status \in ClientErrors
         THEN UNCHANGED <<db, ws, inflight>>
         ELSE \E old \in conversations :
                 /\ old.id = resp'.conv
                 /\ resp'.user \in {old.user1_id, old.user2_id}
                 /\ old.pending_offer_price \notin {NoPrice, 0}
                 /\ old.pending_offer_from_user_id # None
                 /\ resp'.arg.action \in {"accept", "reject", "counter"}
                 /\ resp'.arg.action = "counter" => resp'.arg.price > 0]_vars

\* C5 case: a counter without a positive price was answered 400 while the
\* offer it answered is still pending.
C5_Witness ==
    /\ resp.op = "respond_to_offer"
    /\ resp.status = HTTP_400_BAD_REQUEST
    /\ resp.detail = "Invalid counter offer price"
    /\ \E r \in conversations :
          /\ r.id = resp.conv
          /\ r.pending_offer_price = 50
          /\ r.pending_offer_from_user_id # resp.user

\* C6, state part: the sender of every message is user1 or user2 of the
\* message's conversation.
SendersAreParticipants ==
    \A m \in messages :
        \E r \in conversations :
            /\ r.id = m.conversation_id
            /\ m.sender_id \in {r.user1_id, r.user2_id}

\* C6: a create_message on an existing conversation by a user who is neither
\* user1 nor user2 returns 403 and changes no table, no connection, no
\* channel log and suspends on no send; every message's sender is a
\* participant of its conversation.
C6_OutsiderMessageForbidden ==
    /\ [] SendersAreParticipants
    /\ [][/\ resp'.op = "create_message"
          /\ resp'.step = "db"
          /\ \E r \in conversations :
                /\ r.id = resp'.conv
                /\ resp'.user \notin {r.user1_id, r.user2_id}
          => /\ resp'.status = HTTP_403_FORBIDDEN
             /\ UNCHANGED <<db, ws, inflight>>]_vars

\* C6 case: user 3 was answered 403 on the conversation of users 2 and 1
\* while user 1 had a channel registered.
C6_Witness ==
    /\ resp.op = "create_message"
    /\ resp.status = HTTP_403_FORBIDDEN
    /\ resp.user = 3
    /\ active_connections[1] # None
    /\ \E r \in conversations : r.id = resp.conv /\ r.last_message_at = None

\* The step just taken was the database part of an HTTP handler
HandlerDone ==
    /\ resp'.step = "db"
    /\ resp'.op \in {"create_conversation", "get_messages", "create_message"}

\* C7: a handler step delivers nothing itself and suspends only on a send
\* whose recipient has a channel registered (with none registered it returns
\* at once); a channel that registers starts with an empty log and resumes
\* nothing; and a channel's log grows only by the one event of a suspended
\* send that looked this channel up, which is thereby consumed: the sends
\* left to its handler are fewer.
C7_UnregisteredEventsAreLost ==
    [][/\ HandlerDone =>
            /\ recv' = recv
            /\ \A q \in inflight' \ inflight :
                  /\ active_connections[Head(q.plan).to] # None
                  /\ q.chan = active_connections[Head(q.plan).to]
            /\ (\A u \in Users : active_connections[u] = None) =>
                  /\ inflight' = inflight
                  /\ resp'.status # Suspended
       /\ resp'.op = "ws_connect" =>
            /\ recv' \in {recv, Append(recv, << >>)}
            /\ inflight' = inflight
       /\ \A ch \in DOMAIN recv :
            recv'[ch] # recv[ch] =>
               \E r \in inflight :
                  /\ r.chan = ch
                  /\ recv'[ch] = Append(recv[ch], Head(r.plan).ev)
                  /\ r \notin inflight'
                  /\ \A q \in inflight' \ inflight :
                        /\ q.final = r.final
                        /\ Len(q.plan) < Len(r.plan)]_vars

\* C7 case: user 1 registered the first channel ever after a message to them
\* was created; the channel is open, no handler is suspended, and its log is
\* empty.
C7_Witness ==
    /\ resp.op = "ws_connect" /\ resp.status = HTTP_200_OK /\ resp.user = 1
    /\ Len(channels) = 1 /\ channels[1].state = "open"
    /\ active_connections[1] = 1
    /\ \E m \in messages : m.sender_id = 2
    /\ inflight = {}
    /\ recv[1] = << >>

\* C8: a send_json that fails never changes the response of the request that
\* dispatched it: a handler resumed from a send is still suspended or
\* returns 200.
C8_SendFailureNeverSurfaces ==
    [][resp'.step = "send" => resp'.status \in {Suspended, HTTP_200_OK}]_vars

\* C9, state part: a registry entry names a channel that was accepted for
\* that user id.
RegistryNamesOwnChannel ==
    \A u \in Users :
        active_connections[u] # None =>
            /\ active_connections[u] \in DOMAIN channels
            /\ channels[active_connections[u]].user_id = u

\* C9: the registry holds one channel per user id; an accepted connection
\* becomes the user's entry whatever was registered before; and every send a
\* handler suspends on goes to the channel that is the recipient's entry at
\* that moment.
C9_RegisterReplaces ==
    /\ [] RegistryNamesOwnChannel
    /\ [][/\ resp'.op = "ws_connect" /\ resp'.status = HTTP_200_OK =>
               /\ resp'.val = Len(channels) + 1
               /\ active_connections' =
                     [active_connections EXCEPT ![resp'.user] = resp'.val]
          /\ \A q \in inflight' \ inflight :
               q.chan = active_connections'[Head(q.plan).to]]_vars

\* C9 case: user 1 has two open channels, the second is the registry entry,
\* and events were delivered on the second and none on the first.
C9_Witness ==
    /\ Len(channels) = 2
    /\ channels[1].state = "open" /\ channels[2].state = "open"
    /\ channels[1].user_id = 1 /\ channels[2].user_id = 1
    /\ active_connections[1] = 2
    /\ recv[1] = << >>
    /\ recv[2] # << >>

\* C10: a connection for user id u is accepted and registered exactly when
\* its token verifies and names u; otherwise it is closed with code 1008
\* without being accepted, and the registry, the channels and their logs are
\* as before.
C10_AdmissionNeedsMatchingToken ==
    [][resp'.op = "ws_connect" =>
         IF resp'.arg.to = resp'.user
         THEN /\ resp'.status = HTTP_200_OK
              /\ Len(channels') = Len(channels) + 1
              /\ channels'[Len(channels')] =
                     [user_id |-> resp'.user, state |-> "open"]
              /\ active_connections'[resp'.user] = Len(channels')
         ELSE /\ resp'.status = WS_1008_POLICY_VIOLATION
              /\ UNCHANGED <<active_connections, channels, recv>>]_vars

\* C10 case: with channel 1 registered for user 1, another connection for
\* user 1 came with a token of user 2 and was closed with 1008; channel 1 is
\* still the entry.
C10_Witness ==
    /\ resp.op = "ws_connect" /\ resp.user = 1 /\ resp.arg.to = 2
    /\ resp.status = WS_1008_POLICY_VIOLATION
    /\ resp.detail = "User ID mismatch"
    /\ Len(channels) = 1
    /\ channels[1].state = "open"
    /\ active_connections[1] = 1

\* C11, state part: an item_sold event names the Transaction of its
\* conversation, a message event a Message and a notification event a
\* Notification, each of them persisted.
EventsNamePersistedRows ==
    /\ \A ch \in DOMAIN recv : \A i \in DOMAIN recv[ch] :
          LET e == recv[ch][i] IN
          /\ e.type = "item_sold" =>
                \E t \in transactions : t.id = e.ref /\ t.conversation_id = e.conv
          /\ e.type = "notification" =>
                \E n \in notifications : n.id = e.ref
    /\ \A q \in inflight : \A i \in DOMAIN q.plan :
          LET e == q.plan[i].ev IN
          /\ e.type = "item_sold" =>
                \E t \in transactions : t.id = e.ref /\ t.conversation_id = e.conv
          /\ e.type = "notification" =>
                \E n \in notifications : n.id = e.ref

\* C11: every item_sold event sent or about to be sent names a persisted
\* Transaction; a handler step that fails (its commit or that of
\* create_notification) or that writes nothing hands no event to a channel;
\* and an event reaches a channel only in a step that writes nothing, after
\* the step that committed.
C11_DispatchAfterCommit ==
    /\ [] EventsNamePersistedRows
    /\ [][/\ resp'.step = "db" /\ resp'.status \notin {HTTP_200_OK, Suspended}
               => inflight' = inflight /\ recv' = recv
          /\ resp'.step = "db" /\ UNCHANGED db => inflight' = inflight
          /\ recv' # recv => UNCHANGED db]_vars

\* C11 case: an item_sold event was delivered on a channel and the
\* Transaction it names is persisted.
C11_Witness ==
    \E ch \in DOMAIN recv : \E i \in DOMAIN recv[ch] :
        /\ recv[ch][i].type = "item_sold"
        /\ \E t \in transactions : t.id = recv[ch][i].ref

\* C12: a successful accept hands an item_sold event to each participant of
\* the conversation that has a channel registered and to no other user.
C12_SoldEventToBothParticipants ==
    [][RespondDone("accept") /\ resp'.status \in {HTTP_200_OK, Suspended} =>
         \E old \in conversations :
            /\ old.id = resp'.conv
            /\ \A q \in inflight' \ inflight : \A i \in DOMAIN q.plan :
                  q.plan[i].ev.type = "item_sold" =>
                     q.plan[i].to \in {old.user1_id, old.user2_id}
            /\ \A p \in {old.user1_id, old.user2_id} :
                  active_connections[p] # None =>
                     \E q \in inflight' \ inflight : \E i \in DOMAIN q.plan :
                        /\ q.plan[i].ev.type = "item_sold"
                        /\ q.plan[i].to = p]_vars

\* The row has no pending offer: price, from-user and timestamp are empty
OfferCleared(r) ==
    /\ r.pending_offer_price = NoPrice
    /\ r.pending_offer_from_user_id = None
    /\ r.pending_offer_at = None

\* C13: a create_conversation that finds the pair's row and names an item
\* other than the row's sets the row's item, clears is_sold and is_ended and
\* leaves no pending offer; one that names the row's item or no item leaves
\* the row as it was.
C13_RepointResetsOffer ==
    [][/\ resp'.op = "create_conversation" /\ resp'.step = "db"
       /\ resp'.status \in {HTTP_200_OK, Suspended}
       => \A old \in conversations :
             old.id = resp'.val =>
                \E new \in conversations' :
                   /\ new.id = old.id
                   /\ IF resp'.arg.item # None /\ resp'.arg.item # old.item_id
                      THEN /\ new.item_id = resp'.arg.item
                           /\ ~new.is_sold /\ ~new.is_ended
                           /\ OfferCleared(new)
                      ELSE new = old]_vars

\* C14: a send_purchase_offer by a participant is answered with a client
\* error and leaves conversations and messages unchanged when the
\* conversation is sold or has no item; otherwise, for a price of whole
\* cents, the pending offer becomes that number of cents from the proposer,
\* whatever was pending before, and exactly one Message, sent by the
\* proposer, is added.
C14_OfferSetsPendingOffer ==
    [][resp'.op = "send_purchase_offer" /\ resp'.step = "db" =>
         \A old \in conversations :
            old.id = resp'.conv /\ resp'.user \in {old.user1_id, old.user2_id} =>
               IF old.is_sold \/ old.item_id = None
               THEN /\ resp'.status \in ClientErrors
                    /\ UNCHANGED <<conversations, messages>>
               ELSE resp'.status \in {HTTP_200_OK, Suspended}
                      /\ resp'.arg.price % 10 = 0 =>
                    /\ \E new \in conversations' :
                          /\ new.id = old.id
                          /\ new.pending_offer_price * 10 = resp'.arg.price
                          /\ new.pending_offer_from_user_id = resp'.user
                    /\ \E m \in messages' \ messages :
                          /\ messages' = messages \cup {m}
                          /\ m.sender_id = resp'.user
                          /\ m.conversation_id = old.id]_vars

\* C15: after a reject that returned 200 the conversation has no pending
\* offer, exactly one Message from the rejecting user was added, and a
\* Notification for the author of the rejected offer was created.
C15_RejectNotifiesOfferAuthor ==
    [][RespondDone("reject") /\ resp'.status \in {HTTP_200_OK, Suspended} =>
         \E old \in conversations, new \in conversations' :
            /\ old.id = resp'.conv /\ new.id = old.id
            /\ OfferCleared(new)
            /\ \E m \in messages' \ messages :
                  /\ messages' = messages \cup {m}
                  /\ m.sender_id = resp'.user
            /\ \E n \in notifications' \ notifications :
                  n.user_id = old.pending_offer_from_user_id]_vars

\* C16, state part: a sold conversation holds no pending offer.
SoldHasNoOffer ==
    \A r \in conversations : r.is_sold => OfferCleared(r)

\* C16: a respond_to_offer (accept included) on a conversation whose is_sold
\* is true is answered with a client error and writes nothing, so no further
\* Transaction is created; a sold conversation never holds a pending offer.
C16_AcceptOnSoldRejected ==
    /\ [] SoldHasNoOffer
    /\ [][/\ resp'.op = "respond_to_offer" /\ resp'.step = "db"
          /\ \E old \in conversations : old.id = resp'.conv /\ old.is_sold
          => /\ resp'.status \in ClientErrors
             /\ transactions' = transactions
             /\ UNCHANGED db]_vars

\* C16 case: a participant's respond on the sold conversation, continued
\* after its sale, was answered 400 for want of a pending offer; the sale's
\* one Transaction is there.
C16_Witness ==
    /\ resp.op = "respond_to_offer"
    /\ resp.status = HTTP_400_BAD_REQUEST
    /\ resp.detail = "No pending offer to respond to"
    /\ Cardinality(transactions) = 1
    /\ \E r \in conversations :
          /\ r.id = resp.conv /\ r.is_sold /\ ~r.is_ended
          /\ resp.user \in {r.user1_id, r.user2_id}

\* C17: a continue that returns 200 sets is_ended to false and ended_at to
\* empty and changes nothing else in any table; a participant's message on
\* an existing conversation is stored whatever is_sold and is_ended are; and
\* an offer on a sold conversation is answered with a client error and
\* writes nothing.
C17_ContinueKeepsSold ==
    [][/\ resp'.op = "continue_conversation" /\ resp'.status = HTTP_200_OK =>
            \E old \in conversations :
               /\ old.id = resp'.conv
               /\ conversations' = (conversations \ {old}) \cup
                     {[old EXCEPT !.is_ended = FALSE, !.ended_at = None]}
               /\ UNCHANGED <<messages, notifications, transactions,
                              item_status>>
       /\ resp'.op = "create_message" /\ resp'.step = "db" =>
            \A old \in conversations :
               old.id = resp'.conv /\ resp'.user \in {old.user1_id, old.user2_id} =>
                  /\ resp'.status \in {HTTP_200_OK, Suspended}
                  /\ \E m \in messages' \ messages :
                        m.sender_id = resp'.user /\ m.conversation_id = old.id
       /\ resp'.op = "send_purchase_offer" /\ resp'.step = "db" =>
            \A old \in conversations :
               old.id = resp'.conv /\ old.is_sold =>
                  /\ resp'.status \in ClientErrors
                  /\ UNCHANGED db]_vars

\* C17 case: a message was stored on a conversation that is sold and, after
\* a continue, no longer ended.
C17_Witness ==
    /\ resp.op = "create_message" /\ resp.status = HTTP_200_OK
    /\ \E r \in conversations, m \in messages :
          /\ r.id = resp.conv /\ r.is_sold /\ ~r.is_ended
          /\ m.id = resp.val /\ m.conversation_id = r.id

\* C18: a report that returns 200 sets is_reported and changes nothing else;
\* no step sets is_reported of a conversation back to false, and no step but
\* report changes it; and whether reported or not, a participant's message
\* is stored, a participant's offer is refused exactly when the conversation
\* is sold or has no item, and a participant's respond is refused for want
\* of a pending offer exactly when none is pending.
C18_ReportIsOverlay ==
    [][/\ resp'.op = "report_conversation" /\ resp'.status = HTTP_200_OK =>
            \E old \in conversations :
               /\ old.id = resp'.conv
               /\ conversations' = (conversations \ {old}) \cup
                     {[old EXCEPT !.is_reported = TRUE]}
               /\ UNCHANGED <<messages, notifications, transactions,
                              item_status>>
       /\ \A old \in conversations, new \in conversations' :
            new.id = old.id =>
               /\ old.is_reported => new.is_reported
               /\ resp'.op # "report_conversation" =>
                     new.is_reported = old.is_reported
       /\ \A old \in conversations :
            /\ old.id = resp'.conv
            /\ resp'.user \in {old.user1_id, old.user2_id}
            /\ resp'.step = "db"
            => /\ resp'.op = "create_message" =>
                    /\ resp'.status \in {HTTP_200_OK, Suspended}
                    /\ \E m \in messages' \ messages : m.sender_id = resp'.user
               /\ resp'.op = "send_purchase_offer" =>
                    (resp'.status \in ClientErrors
                        <=> old.is_sold \/ old.item_id = None)
               /\ resp'.op = "respond_to_offer" =>
                    /\ resp'.status # HTTP_403_FORBIDDEN
                    /\ resp'.detail = "No pending offer to respond to"
                         <=> \/ old.pending_offer_price \in {NoPrice, 0}
                             \/ old.pending_offer_from_user_id = None]_vars

\* C18 case: an offer was accepted on a conversation reported before, which
\* is now sold and still reported.
C18_Witness ==
    /\ resp.op = "respond_to_offer" /\ resp.arg.action = "accept"
    /\ resp.status = HTTP_200_OK
    /\ \E r \in conversations :
          r.id = resp.conv /\ r.is_reported /\ r.is_sold

\* C19, state part: every Message, and every Notification and Transaction
\* that names a conversation, names one that exists.
NoDanglingReferences ==
    /\ \A m \in messages :
          \E r \in conversations : r.id = m.conversation_id
    /\ \A n \in notifications :
          n.related_conversation_id # None =>
             \E r \in conversations : r.id = n.related_conversation_id
    /\ \A t \in transactions :
          t.conversation_id # None =>
             \E r \in conversations : r.id = t.conversation_id

\* C19: a delete that returns 200 removes the conversation and its Messages
\* and, in the same step, empties the reference of every Notification and
\* Transaction that named it, changing nothing else of them; a delete that
\* does not return 200 changes nothing; and no Message, Notification or
\* Transaction ever names a conversation that does not exist.
C19_DeleteNullsReferences ==
    /\ [] NoDanglingReferences
    /\ [][resp'.op = "delete_conversation" =>
            IF resp'.status = HTTP_200_OK
            THEN /\ conversations' =
                       {r \in conversations : r.id # resp'.conv}
                 /\ conversations' # conversations
                 /\ messages' =
                       {m \in messages : m.conversation_id # resp'.conv}
                 /\ transactions' =
                       {[t EXCEPT !.conversation_id =
                            IF @ = resp'.conv THEN None ELSE @]
                        : t \in transactions}
                 /\ Cardinality(transactions') = Cardinality(transactions)
                 /\ notifications' =
                       {[n EXCEPT !.related_conversation_id =
                            IF @ = resp'.conv THEN None ELSE @]
                        : n \in notifications}
                 /\ UNCHANGED item_status
            ELSE UNCHANGED db]_vars

\* C19 case: the conversation of a sale was deleted; its Transaction is
\* still there with its seller, buyer and price and names no conversation,
\* and so does a Notification.
C19_Witness ==
    /\ resp.op = "delete_conversation" /\ resp.status = HTTP_200_OK
    /\ conversations = {}
    /\ \E t \in transactions :
          /\ t.conversation_id = None
          /\ t.item_id = 1 /\ t.seller_id = 1 /\ t.buyer_id = 2
          /\ t.sale_price_cents = 50
    /\ \E n \in notifications : n.related_conversation_id = None

\* C20, state part: at most one Rating row per transaction and rater.
OneRatingPerRater ==
    \A r1, r2 \in ratings :
        r1.transaction_id = r2.transaction_id /\ r1.rater_id = r2.rater_id
           => r1 = r2

\* C20: there is never more than one Rating row for a transaction and a
\* rater, however the rate_user requests interleave; after a rate_user that
\* returned 200 every row of that rater for that transaction holds the score
\* and comment submitted; and the summary of a user counts each rater of
\* each transaction once.
C20_OneRatingPerRater ==
    /\ [] OneRatingPerRater
    /\ [][/\ resp'.op = "rate_user" /\ resp'.step = "commit"
             /\ resp'.status = HTTP_200_OK =>
               \E call \in rate_calls \ rate_calls' :
                  \A r \in ratings' :
                     r.transaction_id = call.tx /\ r.rater_id = call.user =>
                        /\ r.rating = call.inp.rating
                        /\ r.comment = call.inp.comment
          /\ resp'.op = "get_user_rating_summary" =>
               resp'.val.rating_count =
                  Cardinality({<<r.transaction_id, r.rater_id>> :
                     r \in {x \in ratings : x.rated_user_id = resp'.arg.to}})
         ]_vars

\* C21: the end of a connection's handler removes a registry entry only if
\* the entry is that connection: a newer channel registered for the same
\* user stays the entry, so the user stays addressable through it.
C21_OlderDisconnectKeepsNewer ==
    [][resp'.op = "ws_disconnect" =>
          \A u \in Users :
              /\ active_connections[u] # None
              /\ active_connections[u] # resp'.val
              => active_connections'[u] = active_connections[u]]_vars

\* C22: the Message, the conversation change and the Notification of a send
\* message or a negotiation action are one write set: a request of these
\* that fails on persistence (500) leaves no Message inserted and no
\* conversation changed.
C22_MessageAndNotificationAtomic ==
    [][/\ resp'.step = "db"
       /\ resp'.op \in {"create_message", "send_purchase_offer",
                        "respond_to_offer"}
       /\ resp'.status = HTTP_500_INTERNAL_SERVER_ERROR
       => /\ messages' = messages
          /\ conversations' = conversations]_vars

\* C23, state part: every send a handler is suspended on holds a channel
\* that was accepted for the recipient of the event: the lookup that
\* followed the membership test found an entry.
SendsHoldRecipientChannel ==
    \A q \in inflight :
        /\ q.chan \in DOMAIN channels
        /\ channels[q.chan].user_id = Head(q.plan).to

\* C23: under every interleaving of connects, disconnects and dispatches the
\* registry maps a user id to no channel or to one accepted for that id, and
\* changes only in the entry of the user that connects or disconnects; a
\* send holds the channel found at lookup time, and when resumed after the
\* entry was removed it appends to that channel's log or to none.
C23_RegistryConsistentUnderRaces ==
    /\ [](/\ \A u \in Users :
                active_connections[u] # None =>
                    /\ active_connections[u] \in DOMAIN channels
                    /\ channels[active_connections[u]].user_id = u
          /\ SendsHoldRecipientChannel)
    /\ [][/\ active_connections' # active_connections =>
                /\ resp'.op \in {"ws_connect", "ws_disconnect"}
                /\ \A u \in Users \ {resp'.user} :
                      active_connections'[u] = active_connections[u]
          /\ \A q \in inflight' \ inflight :
                /\ active_connections[Head(q.plan).to] # None
                /\ q.chan = active_connections[Head(q.plan).to]
          /\ resp'.step = "send" =>
                \E r \in inflight \ inflight' :
                    \A ch \in DOMAIN recv :
                        ch # r.chan => recv'[ch] = recv[ch]]_vars

\* C23 case: a message to user 1 was dispatched to channel 1, the peer went
\* away and the connection's handler removed the entry while the send was
\* pending; the resumed handler dropped its events and returned 200.
C23_Witness ==
    /\ resp.op = "create_message" /\ resp.step = "send"
    /\ resp.status = HTTP_200_OK
    /\ Len(channels) = 1 /\ channels[1].state = "closed"
    /\ active_connections[1] = None
    /\ recv[1] = << >>

\* C24: a request that is suspended in the send of an event eventually
\* returns, whatever the recipient's channel does.
C24_DispatchingRequestReturns == (inflight # {}) ~> (inflight = {})

\* C25: the event a report of a listing delivers has the top-level type
\* item_reported and holds item_id, item_title, report_id, seller_id, message
\* and timestamp directly in its data; it goes to a channel of the item's
\* seller, who is not the reporter.
C25_ItemReportedEnvelope ==
    [][resp'.op = "mark_item_incomplete" /\ resp'.step = "send" =>
          \A ch \in DOMAIN recv :
              recv'[ch] # recv[ch] =>
                  LET e == recv'[ch][Len(recv'[ch])] IN
                  /\ e.type = "item_reported"
                  /\ DOMAIN e.data = {"item_id", "item_title", "report_id",
                                      "seller_id", "message", "timestamp"}
                  /\ e.data.item_id = resp'.arg.item
                  /\ e.data.report_id = resp'.val
                  /\ e.data.seller_id = seller_id(resp'.arg.item)
                  /\ channels[ch].user_id = seller_id(resp'.arg.item)
                  /\ channels[ch].user_id # resp'.user]_vars

\* C26: a respond_to_offer made by the user who proposed the pending offer
\* is answered with a client error and changes nothing; in particular the
\* proposer's own accept creates no Transaction.
C26_OnlyCounterpartResponds ==
    [][resp'.op = "respond_to_offer" /\ resp'.step = "db" =>
          \A old \in conversations :
              /\ old.id = resp'.conv
              /\ old.pending_offer_price \notin {NoPrice, 0}
              /\ old.pending_offer_from_user_id = resp'.user
              => /\ resp'.status \in ClientErrors
                 /\ UNCHANGED <<db, ws, inflight>>]_vars

\* C27: the seller and the buyer of a Transaction created by an accept are
\* two distinct users and are together the user1 and user2 of the accepted
\* conversation; and a negotiation sets an item to sold only when the owner
\* of the item is one of the conversation's participants.
C27_PartiesAreTheParticipants ==
    [][resp'.op = "respond_to_offer" /\ resp'.step = "db" =>
          \A old \in conversations :
              old.id = resp'.conv =>
                  /\ \A t \in transactions' \ transactions :
                        /\ t.seller_id # t.buyer_id
                        /\ {t.seller_id, t.buyer_id} =
                               {old.user1_id, old.user2_id}
                  /\ \A i \in Items :
                        /\ item_status'[i] = "SOLD"
                        /\ item_status[i] # "SOLD"
                        => seller_id(i) \in {old.user1_id, old.user2_id}]_vars

\* C28, state part: no two Transactions reference the same item.
OneTransactionPerItem ==
    \A t1, t2 \in transactions : t1.item_id = t2.item_id => t1 = t2

\* C28: an item is sold at most once: Transactions are one per item, and a
\* respond_to_offer on a conversation whose item is already sold creates no
\* Transaction.
C28_ItemSoldAtMostOnce ==
    /\ [] OneTransactionPerItem
    /\ [][resp'.op = "respond_to_offer" /\ resp'.step = "db" =>
             \A old \in conversations :
                 /\ old.id = resp'.conv
                 /\ old.item_id \in Items
                 /\ item_status[old.item_id] = "SOLD"
                 => transactions' = transactions]_vars

\* C29: a conversation whose is_sold is true has its transaction_id set to
\* the id of a Transaction whose conversation link is that conversation.
C29_SoldConversationNamesTransaction ==
    \A r \in conversations :
        r.is_sold =>
            /\ r.transaction_id # None
            /\ \E t \in transactions :
                  /\ t.id = r.transaction_id
                  /\ t.conversation_id = r.id

\* C30, state part: transaction ids are unique.
TransactionIdsUnique ==
    \A t1, t2 \in transactions : t1.id = t2.id => t1 = t2

\* C30: every Transaction is still there after every step, with the same
\* item, seller, buyer and sale price; its conversation link is as before or
\* has become null.
C30_TransactionsImmutable ==
    /\ [] TransactionIdsUnique
    /\ [][\A t \in transactions :
             \E n \in transactions' :
                 /\ n.id = t.id
                 /\ n.item_id = t.item_id
                 /\ n.seller_id = t.seller_id
                 /\ n.buyer_id = t.buyer_id
                 /\ n.sale_price_cents = t.sale_price_cents
                 /\ n.conversation_id \in {t.conversation_id, None}]_vars

\* C30 case: item 1 was sold for 0.50, the conversation was re-pointed and
\* sold item 2 as well, and was then deleted: both Transactions are there
\* with their conversation link null.
C30_Witness ==
    /\ resp.op = "delete_conversation" /\ resp.status = HTTP_200_OK
    /\ conversations = {}
    /\ \E t1, t2 \in transactions :
          /\ t1.item_id = 1 /\ t1.seller_id = 1 /\ t1.buyer_id = 2
          /\ t1.sale_price_cents = 50 /\ t1.conversation_id = None
          /\ t2.item_id = 2 /\ t2.conversation_id = None

====
